---- MODULE Spec2Model ----
(***************************************************************************)
(* Receipt statistics aggregation (src/lib/stats/compute.ts) and the       *)
(* /api/stats request handler that composes it (src/unnamed/part_000).     *)
(*                                                                         *)
(* Instants are milliseconds since tgeStart = 2025-10-30T00:00:00Z.        *)
(* Strings the code inspects character by character (challenge ids) are    *)
(* tuples of one-character strings.  STAR amounts are integers (rates are  *)
(* integer STAR per receipt); NIGHT amounts are IEEE-754 doubles, kept as  *)
(* a 53-bit mantissa and the exponent of its last bit.                     *)
(***************************************************************************)
EXTENDS Integers, Sequences, FiniteSets, TLC

(***************************************************************************)
(* Bounds of the model.                                                    *)
(***************************************************************************)
MaxReceipts == 3

(***************************************************************************)
(* IEEE-754 double arithmetic on non-negative values, round to nearest,    *)
(* ties to even: the `/` of `star / 1_000_000` and the `+` of the NIGHT    *)
(* reduce.  A double is [m |-> bits, e |-> k]: value = bits (binary, most  *)
(* significant first, 53 of them, the first one 1) times 2^k.              *)
(***************************************************************************)
MantBits == 53
Million == 1000000

FZero == [m |-> <<>>, e |-> 0]

Zeros(n) == [i \in 1..n |-> 0]

\* Bit strings are handled a chunk of ChunkBits bits at a time.
ChunkBits == 8
ChunkBase == 2 ^ ChunkBits

\* The ChunkBits bits of v < ChunkBase, most significant first.
ChunkOf(v) == [j \in 1..ChunkBits |-> (v \div (2 ^ (ChunkBits - j))) % 2]

\* The value of the k-th chunk of bits (Len(bits) a multiple of ChunkBits).
ChunkValue(bits, k) ==
    LET o == (k - 1) * ChunkBits
    IN 128 * bits[o + 1] + 64 * bits[o + 2] + 32 * bits[o + 3] + 16 * bits[o + 4]
       + 8 * bits[o + 5] + 4 * bits[o + 6] + 2 * bits[o + 7] + bits[o + 8]

\* bits without its leading zeros.
StripZeros(bits) ==
    IF \A i \in 1..Len(bits) : bits[i] = 0 THEN <<>>
    ELSE SubSeq(bits,
                CHOOSE i \in 1..Len(bits) :
                    bits[i] = 1 /\ \A j \in 1..(i - 1) : bits[j] = 0,
                Len(bits))

\* bits + 1, for a bit string that starts with 1.
Increment(bits) ==
    IF \A i \in 1..Len(bits) : bits[i] = 1 THEN <<1>> \o Zeros(Len(bits))
    ELSE LET k == CHOOSE i \in 1..Len(bits) :
                      bits[i] = 0 /\ \A j \in (i + 1)..Len(bits) : bits[j] = 1
         IN [i \in 1..Len(bits) |-> IF i < k THEN bits[i] ELSE IF i = k THEN 1 ELSE 0]

\* bits (first one 1) times 2^e, plus a non-zero tail below the last bit when
\* sticky, rounded to MantBits bits.
RoundToDouble(bits, e, sticky) ==
    LET L == Len(bits) IN
    IF L <= MantBits
    THEN [m |-> bits \o Zeros(MantBits - L), e |-> e - (MantBits - L)]
    ELSE LET head == SubSeq(bits, 1, MantBits)
             e2   == e + (L - MantBits)
             tail == sticky \/ \E i \in (MantBits + 2)..L : bits[i] = 1
             up   == bits[MantBits + 1] = 1 /\ (tail \/ head[MantBits] = 1)
             inc  == Increment(head)
         IN IF ~up THEN [m |-> head, e |-> e2]
            ELSE IF Len(inc) > MantBits
                 THEN [m |-> SubSeq(inc, 1, MantBits), e |-> e2 + 1]
                 ELSE [m |-> inc, e |-> e2]

\* Long division r / d (r < d) continued below the binary point, a chunk per
\* step, until the quotient acc has more than MantBits significant bits.
RECURSIVE DivStep(_, _, _)
DivStep(r, d, acc) ==
    IF Len(StripZeros(acc)) > MantBits
    THEN [m |-> StripZeros(acc), len |-> Len(acc), sticky |-> r # 0]
    ELSE DivStep((r * ChunkBase) % d, d, acc \o ChunkOf((r * ChunkBase) \div d))

\* n / 1_000_000 for an integer n >= 0.
FDivMillion(n) ==
    IF n = 0 THEN FZero
    ELSE LET whole == StripZeros([j \in 1..31 |-> ((n \div Million) \div (2 ^ (31 - j))) % 2])
             q     == DivStep(n % Million, Million, whole)
         IN RoundToDouble(q.m, Len(whole) - q.len, q.sticky)

\* a + b for bit strings of the same length, a multiple of ChunkBits: the sum
\* of the chunks k..1 (k the last), with the carry out in front.
RECURSIVE AddChunks(_, _, _, _, _)
AddChunks(a, b, k, carry, acc) ==
    IF k = 0 THEN <<carry>> \o acc
    ELSE LET sum == ChunkValue(a, k) + ChunkValue(b, k) + carry
         IN AddChunks(a, b, k - 1, sum \div ChunkBase, ChunkOf(sum % ChunkBase) \o acc)

\* x + y.
FAdd(x, y) ==
    IF x.m = <<>> THEN y
    ELSE IF y.m = <<>> THEN x
    ELSE LET e  == IF x.e < y.e THEN x.e ELSE y.e
             X  == x.m \o Zeros(x.e - e)
             Y  == y.m \o Zeros(y.e - e)
             n  == IF Len(X) > Len(Y) THEN Len(X) ELSE Len(Y)
             k  == (n + ChunkBits - 1) \div ChunkBits
             Xp == Zeros(k * ChunkBits - Len(X)) \o X
             Yp == Zeros(k * ChunkBits - Len(Y)) \o Y
         IN RoundToDouble(StripZeros(AddChunks(Xp, Yp, k, 0, <<>>)), e, FALSE)

(***************************************************************************)
(* JavaScript values the code relies on.                                   *)
(***************************************************************************)
\* The outcome of a call: a returned value, or a thrown Error.
Return(v) == [ok |-> TRUE, v |-> v]
Throw(msg) == [ok |-> FALSE, error |-> msg]

Null == [isNull |-> TRUE]
Undefined == <<>>

\* A Map in insertion order: its keys as first set, and the value of each.
EmptyMap == [keys |-> <<>>, val |-> <<>>]
MapIndex(map, k) ==
    IF \E i \in 1..Len(map.keys) : map.keys[i] = k
    THEN CHOOSE i \in 1..Len(map.keys) : map.keys[i] = k
    ELSE 0
MapHas(map, k) == MapIndex(map, k) # 0
MapGet(map, k) == map.val[MapIndex(map, k)]
MapSet(map, k, v) ==
    IF MapHas(map, k)
    THEN [map EXCEPT !.val[MapIndex(map, k)] = v]
    ELSE [keys |-> Append(map.keys, k), val |-> Append(map.val, v)]

\* Array.prototype.sort(compare): stable (ECMAScript 2019); compare[<<a, b>>] > 0
\* puts a after b.  The comparator is passed as a function on pairs.
RECURSIVE SortInsert(_, _, _)
SortInsert(sorted, x, compare) ==
    IF sorted = <<>> THEN <<x>>
    ELSE IF compare[<<sorted[Len(sorted)], x>>] > 0
         THEN Append(SortInsert(SubSeq(sorted, 1, Len(sorted) - 1), x, compare),
                     sorted[Len(sorted)])
         ELSE Append(sorted, x)

RECURSIVE ArraySort(_, _)
ArraySort(arr, compare) ==
    IF arr = <<>> THEN <<>>
    ELSE SortInsert(ArraySort(SubSeq(arr, 1, Len(arr) - 1), compare),
                    arr[Len(arr)], compare)

Elements(arr) == {arr[i] : i \in 1..Len(arr)}

(***************************************************************************)
(* Challenge ids: dayFromChallengeId and the id computeStats rebuilds.     *)
(***************************************************************************)
DigitChars == <<"0", "1", "2", "3", "4", "5", "6", "7", "8", "9">>
IsDigit(c) == \E i \in 1..10 : DigitChars[i] = c
DigitValue(c) == (CHOOSE i \in 1..10 : DigitChars[i] = c) - 1

\* The length of the run of digits of s that starts at position i.
RECURSIVE DigitRun(_, _)
DigitRun(s, i) ==
    IF i <= Len(s) /\ IsDigit(s[i]) THEN 1 + DigitRun(s, i + 1) ELSE 0

\* /\*\*D(\d+)C/ matches s at position i, with a run of `run` digits from i + 3.
MatchesWithRun(s, i, run) ==
    /\ i + 4 <= Len(s)
    /\ s[i] = "*" /\ s[i + 1] = "*" /\ s[i + 2] = "D"
    /\ run >= 1
    /\ i + 3 + run <= Len(s)
    /\ s[i + 3 + run] = "C"
MatchesAt(s, i) == MatchesWithRun(s, i, DigitRun(s, i + 3))

\* parseInt(digits, 10)
RECURSIVE ParseInt(_)
ParseInt(digits) ==
    IF digits = <<>> THEN 0
    ELSE 10 * ParseInt(SubSeq(digits, 1, Len(digits) - 1))
         + DigitValue(digits[Len(digits)])

\* match[1] of the leftmost match, the positions of the matches given.
FirstGroup(s, matches) ==
    LET i == CHOOSE j \in matches : \A k \in matches : j <= k
    IN SubSeq(s, i + 3, i + 2 + DigitRun(s, i + 3))

\* `Invalid challenge_id format: ${challengeId}`
InvalidFormat(challengeId) ==
    [text |-> "Invalid challenge_id format: ", challengeId |-> challengeId]
\* A faulty decoder, which C9 tells from the code: day 0 instead of the throw.
DayOfMatchesDefault(challengeId, matches) ==
    IF matches = {} THEN Return(0)
    ELSE Return(ParseInt(FirstGroup(challengeId, matches)))
DayOfMatches(challengeId, matches) ==
    IF matches = {} THEN Throw(InvalidFormat(challengeId))
    ELSE Return(ParseInt(FirstGroup(challengeId, matches)))

dayFromChallengeId(challengeId) ==
    DayOfMatches(challengeId,
                 {i \in 1..Len(challengeId) : MatchesAt(challengeId, i)})

\* day.toString()
RECURSIVE NumberToString(_)
NumberToString(n) ==
    IF n < 10 THEN <<DigitChars[n + 1]>>
    ELSE Append(NumberToString(n \div 10), DigitChars[(n % 10) + 1])

\* s.padStart(2, '0')
PadStart2(s) == IF Len(s) < 2 THEN <<"0">> \o s ELSE s

\* `**D${day.toString().padStart(2, '0')}C00`
ChallengeIdOfDay(day) ==
    <<"*", "*", "D">> \o PadStart2(NumberToString(day)) \o <<"C", "0", "0">>

(***************************************************************************)
(* Instants and ISO strings.  An instant is a number of milliseconds since *)
(* tgeStart; an ISO date is <<year, month, day>>, an ISO timestamp is      *)
(* <<year, month, day, hour, minute>> (fixed width, UTC, whole minutes).   *)
(***************************************************************************)
MinuteMs == 60 * 1000
HourMs == 60 * 60 * 1000
DayMs == 24 * 60 * 60 * 1000

\* The calendar from 2025-10-01 on: the lengths of the months.
MonthLengths == <<31, 30, 31, 31, 28, 31>>
FirstMonth == <<2025, 10>>
TgeStartDayOfMonth == 30

RECURSIVE WalkMonths(_, _)
WalkMonths(n, i) ==
    \* n: days since the first of month number i of MonthLengths
    IF n < MonthLengths[i] THEN <<i, n + 1>> ELSE WalkMonths(n - MonthLengths[i], i + 1)

\* date.toISOString().split('T')[0]
ISODate(ms) ==
    LET w  == WalkMonths((ms \div DayMs) + TgeStartDayOfMonth - 1, 1)
        mo == FirstMonth[2] + w[1] - 1
    IN <<FirstMonth[1] + ((mo - 1) \div 12), ((mo - 1) % 12) + 1, w[2]>>

\* date.toISOString()
ISOString(ms) ==
    ISODate(ms) \o <<(ms % DayMs) \div HourMs, (ms % HourMs) \div MinuteMs>>

RECURSIVE DaysBefore(_)
DaysBefore(i) == IF i = 1 THEN 0 ELSE MonthLengths[i - 1] + DaysBefore(i - 1)

\* new Date(ts).getTime()
DateParse(ts) ==
    LET i == (ts[1] - FirstMonth[1]) * 12 + ts[2] - FirstMonth[2] + 1
    IN (DaysBefore(i) + ts[3] - TgeStartDayOfMonth) * DayMs
       + ts[4] * HourMs + ts[5] * MinuteMs

\* A faulty date, which C19 tells from the code: the anchor taken as day 0.
dateFromChallengeIdFromZero(challengeId) ==
    LET d == dayFromChallengeId(challengeId)
    IN IF d.ok THEN Return(ISODate(d.v * DayMs)) ELSE d

dateFromChallengeId(challengeId) ==
    LET d == dayFromChallengeId(challengeId)
    IN IF d.ok THEN Return(ISODate((d.v - 1) * DayMs)) ELSE d

(***************************************************************************)
(* computeStats                                                            *)
(***************************************************************************)
\* rates[rateIndex] || 0, with rateIndex = day - 1 (sequences start at 1)
\* A faulty lookup, which C8 tells from the code: past the end of the table it
\* takes the last rate.
starPerReceiptClamped(rates, day) ==
    IF day \in 1..Len(rates) THEN rates[day]
    ELSE IF Len(rates) > 0 THEN rates[Len(rates)] ELSE 0
starPerReceipt(rates, day) ==
    IF day \in 1..Len(rates) THEN rates[day] ELSE 0

\* array.reduce((sum, x) => sum + x, 0) on integers
RECURSIVE SumInt(_)
SumInt(arr) ==
    IF arr = <<>> THEN 0
    ELSE SumInt(SubSeq(arr, 1, Len(arr) - 1)) + arr[Len(arr)]

\* array.reduce((sum, x) => sum + x, 0) on doubles, left to right
RECURSIVE SumDouble(_)
SumDouble(arr) ==
    IF arr = <<>> THEN FZero
    ELSE FAdd(SumDouble(SubSeq(arr, 1, Len(arr) - 1)), arr[Len(arr)])

\* Outcomes of the iterations of a loop: all returned; the first throw; the
\* values returned.
AllOk(outcomes) == \A i \in 1..Len(outcomes) : outcomes[i].ok
FirstThrow(outcomes) ==
    outcomes[CHOOSE i \in 1..Len(outcomes) :
                 ~outcomes[i].ok /\ \A j \in 1..(i - 1) : outcomes[j].ok]
Values(outcomes) == [i \in 1..Len(outcomes) |-> outcomes[i].v]

\* One iteration of the first loop, the day of the receipt decoded.
\* A faulty first loop, which C2 tells from the code: the count of a day is
\* set to 1 instead of incremented.
CountReceiptNoIncrement(acc, address, day, ts, adm, ats) ==
    [addressDayMap |->
         MapSet(adm, address, MapSet(MapGet(adm, address), day, 1)),
     addressTimestamps |->
         MapSet(ats, address, Append(MapGet(ats, address), ts))]
CountReceipt(acc, address, day, ts, adm, ats) ==
    [addressDayMap |->
         MapSet(adm, address,
                MapSet(MapGet(adm, address), day,
                       (IF MapHas(MapGet(adm, address), day)
                        THEN MapGet(MapGet(adm, address), day) ELSE 0) + 1)),
     addressTimestamps |->
         MapSet(ats, address, Append(MapGet(ats, address), ts))]

\* The first loop: address -> day -> count, and address -> timestamps.
RECURSIVE GroupByAddress(_, _, _)
GroupStep(receipts, i, acc, receipt, day) ==
    IF ~day.ok THEN day
    ELSE GroupByAddress(receipts, i + 1,
             CountReceipt(acc, receipt.address, day.v, receipt.ts,
                 IF MapHas(acc.addressDayMap, receipt.address)
                 THEN acc.addressDayMap
                 ELSE MapSet(acc.addressDayMap, receipt.address, EmptyMap),
                 IF MapHas(acc.addressTimestamps, receipt.address)
                 THEN acc.addressTimestamps
                 ELSE MapSet(acc.addressTimestamps, receipt.address, <<>>)))
GroupByAddress(receipts, i, acc) ==
    IF i > Len(receipts) THEN Return(acc)
    ELSE GroupStep(receipts, i, acc, receipts[i],
                   dayFromChallengeId(receipts[i].challenge_id))

\* (a, b) => b.day - a.day
\* A faulty comparator, which C5 tells from the code: ascending days.
CompareDaysAsc(a, b) == a.day - b.day
CompareDaysDesc(a, b) == b.day - a.day
\* days.sort((a, b) => b.day - a.day)
SortDays(days) ==
    ArraySort(days, [p \in Elements(days) \X Elements(days) |-> CompareDaysDesc(p[1], p[2])])

\* The default comparator of sort() on two strings of equal width.
RECURSIVE CompareStrings(_, _, _)
CompareStrings(a, b, i) ==
    IF i > Len(a) \/ i > Len(b) THEN Len(a) - Len(b)
    ELSE IF a[i] # b[i] THEN a[i] - b[i]
    ELSE CompareStrings(a, b, i + 1)
\* A faulty sort, which C25 tells from the code: the timestamps are left in
\* the order of the input.
SortTimestampsNone(timestamps) == timestamps
\* timestamps.sort()
SortTimestamps(timestamps) ==
    ArraySort(timestamps,
              [p \in Elements(timestamps) \X Elements(timestamps) |->
                   CompareStrings(p[1], p[2], 1)])

\* A DayStats of an address, its date and STAR given.
AddressDayStats(day, count, date, star) ==
    IF ~date.ok THEN date
    ELSE Return([day |-> day, date |-> date.v, receipts |-> count,
                 star |-> star, night |-> FDivMillion(star)])
\* One DayStats of an address (the body of the loop over dayMap.entries()).
AddressDay(day, count, rates) ==
    AddressDayStats(day, count, dateFromChallengeId(ChallengeIdOfDay(day)),
                    count * starPerReceipt(rates, day))

\* The AddressStats of an address, its days, total STAR and sorted timestamps given.
AddressStats(address, days, totalStar, timestamps) ==
    [address       |-> address,
     days          |-> SortDays(days),
     totalReceipts |-> SumInt([i \in 1..Len(days) |-> days[i].receipts]),
     totalStar     |-> totalStar,
     totalNight    |-> FDivMillion(totalStar),
     firstSolution |-> timestamps[1],
     lastSolution  |-> timestamps[Len(timestamps)]]
AddressOfDays(address, entries, stamps) ==
    IF ~AllOk(entries) THEN FirstThrow(entries)
    ELSE Return(AddressStats(address, Values(entries),
                             SumInt([i \in 1..Len(entries) |-> entries[i].v.star]),
                             SortTimestamps(stamps)))
\* One AddressStats (the body of the loop over addressDayMap.entries()).
AddressEntry(address, dayMap, stamps, rates) ==
    AddressOfDays(address,
                  [i \in 1..Len(dayMap.keys) |->
                       AddressDay(dayMap.keys[i], dayMap.val[i], rates)],
                  stamps)

\* (a, b) => b.totalReceipts - a.totalReceipts
\* A faulty comparator, which C6 tells from the code: ascending totals.
CompareReceiptsAsc(a, b) == a.totalReceipts - b.totalReceipts
CompareReceiptsDesc(a, b) == b.totalReceipts - a.totalReceipts
\* byAddress.sort((a, b) => b.totalReceipts - a.totalReceipts)
SortByAddress(byAddress) ==
    ArraySort(byAddress,
              [p \in Elements(byAddress) \X Elements(byAddress) |->
                   CompareReceiptsDesc(p[1], p[2])])

\* The second loop over the receipts: day -> set of addresses.  Every id has
\* decoded in the first loop.
\* A faulty second loop, which C7 tells from the code: the set of a day is
\* replaced instead of extended.
ReplaceAddress(globalDayMap, day, address) ==
    MapSet(globalDayMap, day, {address})
AddAddress(globalDayMap, day, address) ==
    MapSet(globalDayMap, day, MapGet(globalDayMap, day) \cup {address})
RECURSIVE GroupByDay(_, _, _)
GroupDayStep(receipts, i, globalDayMap, day) ==
    GroupByDay(receipts, i + 1,
               AddAddress(IF MapHas(globalDayMap, day) THEN globalDayMap
                          ELSE MapSet(globalDayMap, day, {}),
                          day, receipts[i].address))
GroupByDay(receipts, i, globalDayMap) ==
    IF i > Len(receipts) THEN globalDayMap
    ELSE GroupDayStep(receipts, i, globalDayMap,
                      dayFromChallengeId(receipts[i].challenge_id).v)

\* A faulty count, which C1 tells from the code: the addresses of the day
\* instead of its receipts.
receiptsThisDayByAddress(receipts, day) ==
    Cardinality({receipts[i].address : i \in
                     {j \in 1..Len(receipts) :
                          dayFromChallengeId(receipts[j].challenge_id).v = day}})
\* receipts.filter(r => dayFromChallengeId(r.challenge_id) === day).length
receiptsThisDay(receipts, day) ==
    Cardinality({i \in 1..Len(receipts) :
                     dayFromChallengeId(receipts[i].challenge_id).v = day})

\* A global DayStats, its date and receipt count given.
GlobalDayStats(day, addresses, date, n, star) ==
    IF ~date.ok THEN date
    ELSE Return([day |-> day, date |-> date.v, receipts |-> n,
                 addresses |-> Cardinality(addresses),
                 star |-> star, night |-> FDivMillion(star)])
\* A faulty global day, which C28 tells from the code: the rate is read at
\* rates[day], the per-address rollup keeps rates[day - 1].
GlobalDayOfCountNextRate(day, addresses, n, rates) ==
    GlobalDayStats(day, addresses, dateFromChallengeId(ChallengeIdOfDay(day)),
                   n, n * starPerReceipt(rates, day + 1))
GlobalDayOfCount(day, addresses, n, rates) ==
    GlobalDayStats(day, addresses, dateFromChallengeId(ChallengeIdOfDay(day)),
                   n, n * starPerReceipt(rates, day))
\* One global DayStats (the body of the loop over globalDayMap.entries()).
GlobalDay(day, addresses, receipts, rates) ==
    GlobalDayOfCount(day, addresses, receiptsThisDay(receipts, day), rates)

\* grandTotal
\* Another grandTotal, which C3 tells from the code: its NIGHT is the STAR sum
\* divided, not the sum of the addresses' NIGHT.
GrandTotalNightFromStar(receipts, byAddress) ==
    [receipts |-> Len(receipts),
     star     |-> SumInt([i \in 1..Len(byAddress) |-> byAddress[i].totalStar]),
     night    |-> FDivMillion(SumInt([i \in 1..Len(byAddress) |-> byAddress[i].totalStar]))]
GrandTotal(receipts, byAddress) ==
    [receipts |-> Len(receipts),
     star     |-> SumInt([i \in 1..Len(byAddress) |-> byAddress[i].totalStar]),
     night    |-> SumDouble([i \in 1..Len(byAddress) |-> byAddress[i].totalNight])]

\* A faulty result, which C20 tells from the code: startDate and endDate read
\* from the wrong ends of days.
GlobalStatsSwapped(receipts, nAddresses, byAddress, days) ==
    [totalReceipts  |-> Len(receipts),
     totalAddresses |-> nAddresses,
     days           |-> days,
     byAddress      |-> byAddress,
     grandTotal     |-> GrandTotal(receipts, byAddress),
     startDate      |-> IF Len(days) > 0 THEN days[1].date ELSE Undefined,
     endDate        |-> IF Len(days) > 0 THEN days[Len(days)].date ELSE Undefined]

\* The returned GlobalStats.
GlobalStats(receipts, nAddresses, byAddress, days) ==
    [totalReceipts  |-> Len(receipts),
     totalAddresses |-> nAddresses,
     days           |-> days,
     byAddress      |-> byAddress,
     grandTotal     |-> GrandTotal(receipts, byAddress),
     startDate      |-> IF Len(days) > 0 THEN days[Len(days)].date ELSE Undefined,
     endDate        |-> IF Len(days) > 0 THEN days[1].date ELSE Undefined]

\* computeStats from the loop over globalDayMap.entries() on.
StatsOfDays(receipts, byAddress, perDay) ==
    IF ~AllOk(perDay) THEN FirstThrow(perDay)
    ELSE Return(GlobalStats(receipts, Len(byAddress), byAddress,
                            SortDays(Values(perDay))))

GlobalDays(receipts, rates, globalDayMap) ==
    [i \in 1..Len(globalDayMap.keys) |->
         GlobalDay(globalDayMap.keys[i], globalDayMap.val[i], receipts, rates)]

\* computeStats from the sort of byAddress on.
StatsOfAddresses(receipts, rates, perAddress) ==
    IF ~AllOk(perAddress) THEN FirstThrow(perAddress)
    ELSE StatsOfDays(receipts, SortByAddress(Values(perAddress)),
                     GlobalDays(receipts, rates, GroupByDay(receipts, 1, EmptyMap)))

AddressEntries(addressDayMap, addressTimestamps, rates) ==
    [i \in 1..Len(addressDayMap.keys) |->
         AddressEntry(addressDayMap.keys[i], addressDayMap.val[i],
                      MapGet(addressTimestamps, addressDayMap.keys[i]), rates)]

\* computeStats from the loop over addressDayMap.entries() on.
StatsOfGroups(receipts, rates, grouped) ==
    IF ~grouped.ok THEN grouped
    ELSE StatsOfAddresses(receipts, rates,
                          AddressEntries(grouped.v.addressDayMap,
                                         grouped.v.addressTimestamps, rates))

\* The arrays computeStats writes in place, with its arguments: it pushes the
\* timestamps of an address onto an array of its own and sorts that array.
Arrays(receipts, rates) ==
    [receipts |-> receipts, rates |-> rates, addressTimestamps |-> EmptyMap]

\* addressTimestamps.get(address)!.push(receipt.ts), the array made if absent
PushTimestamp(arrays, receipt) ==
    [arrays EXCEPT !.addressTimestamps =
         MapSet(@, receipt.address,
                Append(IF MapHas(@, receipt.address) THEN MapGet(@, receipt.address)
                       ELSE <<>>,
                       receipt.ts))]

\* The first loop, up to its end or to the receipt whose id throws.
RECURSIVE PushTimestamps(_, _)
PushTimestamps(arrays, i) ==
    IF i > Len(arrays.receipts) THEN arrays
    ELSE IF ~dayFromChallengeId(arrays.receipts[i].challenge_id).ok THEN arrays
    ELSE PushTimestamps(PushTimestamp(arrays, arrays.receipts[i]), i + 1)

\* A faulty sort, which C21 tells from the code: the receipts themselves are
\* sorted in place to find the first and the last.
SortReceiptsInPlace(arrays, address) ==
    [arrays EXCEPT !.receipts =
         ArraySort(@, [p \in Elements(@) \X Elements(@) |-> CompareStrings(p[1].ts, p[2].ts, 1)])]
\* addressTimestamps.get(address)!.sort(): in place, on the array of the map
SortInPlace(arrays, address) ==
    [arrays EXCEPT !.addressTimestamps =
         MapSet(@, address, SortTimestamps(MapGet(@, address)))]

\* The loop over the addresses (when no id has thrown).
RECURSIVE SortEach(_, _)
SortEach(arrays, k) ==
    IF k > Len(arrays.addressTimestamps.keys) THEN arrays
    ELSE SortEach(SortInPlace(arrays, arrays.addressTimestamps.keys[k]), k + 1)

\* The arrays after computeStats(receipts, rates).
ArraysAfterComputeStats(receipts, rates) ==
    IF Len(receipts) = 0 THEN Arrays(receipts, rates)
    ELSE IF \E i \in 1..Len(receipts) : ~dayFromChallengeId(receipts[i].challenge_id).ok
         THEN PushTimestamps(Arrays(receipts, rates), 1)
         ELSE SortEach(PushTimestamps(Arrays(receipts, rates), 1), 1)

\* A faulty computeStats, which C11 tells from the code: null for the empty
\* list, as computeHourlyStats returns.
computeStatsNullOnEmpty(receipts, rates) ==
    IF Len(receipts) = 0 THEN Return(Null)
    ELSE StatsOfGroups(receipts, rates,
                       GroupByAddress(receipts, 1,
                           [addressDayMap |-> EmptyMap, addressTimestamps |-> EmptyMap]))

computeStats(receipts, rates) ==
    IF Len(receipts) = 0
    THEN Return([totalReceipts |-> 0, totalAddresses |-> 0, days |-> <<>>,
                 byAddress |-> <<>>,
                 grandTotal |-> [receipts |-> 0, star |-> 0, night |-> FZero],
                 startDate |-> Undefined, endDate |-> Undefined])
    ELSE StatsOfGroups(receipts, rates,
                       GroupByAddress(receipts, 1,
                           [addressDayMap |-> EmptyMap, addressTimestamps |-> EmptyMap]))

(***************************************************************************)
(* getTodayStats, getSolutionsPerHour                                      *)
(***************************************************************************)
\* arr.filter(test), the outcome of test on each element given
Filter(arr, keep) ==
    LET F[i \in 0..Len(arr)] ==
            IF i = 0 THEN <<>>
            ELSE IF keep[i] THEN Append(F[i - 1], arr[i]) ELSE F[i - 1]
    IN F[Len(arr)]

\* getTodayStats after the filter.
TodayOf(todayReceipts, rates, today, star) ==
    [day |-> dayFromChallengeId(todayReceipts[1].challenge_id).v,
     date |-> today,
     receipts  |-> Len(todayReceipts),
     addresses |-> Cardinality({todayReceipts[i].address : i \in 1..Len(todayReceipts)}),
     star |-> star, night |-> FDivMillion(star)]
\* A faulty today, which C29 tells from the code: the rate is read at
\* rates[day].
TodayOfReceiptsNextRate(todayReceipts, rates, today) ==
    IF Len(todayReceipts) = 0 THEN Return(Null)
    ELSE Return(TodayOf(todayReceipts, rates, today,
                        Len(todayReceipts)
                          * starPerReceipt(rates,
                                dayFromChallengeId(todayReceipts[1].challenge_id).v + 1)))
TodayOfReceipts(todayReceipts, rates, today) ==
    IF Len(todayReceipts) = 0 THEN Return(Null)
    ELSE Return(TodayOf(todayReceipts, rates, today,
                        Len(todayReceipts)
                          * starPerReceipt(rates,
                                dayFromChallengeId(todayReceipts[1].challenge_id).v)))
TodayOfDates(receipts, rates, today, dates) ==
    IF ~AllOk(dates) THEN FirstThrow(dates)
    ELSE TodayOfReceipts(Filter(receipts, [i \in 1..Len(receipts) |-> dates[i].v = today]),
                         rates, today)

getTodayStats(receipts, rates, now) ==
    TodayOfDates(receipts, rates, ISODate(now),
                 [i \in 1..Len(receipts) |-> dateFromChallengeId(receipts[i].challenge_id)])

RECURSIVE GCD(_, _)
GCD(a, b) == IF b = 0 THEN a ELSE GCD(b, a % b)

\* n / d for integers n >= 0, d > 0, as the fraction in lowest terms.
Quotient(n, d) == [num |-> n \div GCD(n, d), den |-> d \div GCD(n, d)]

\* receipts.filter(r => new Date(r.ts).getTime() >= cutoff)
Recent(receipts, cutoff) ==
    Filter(receipts, [i \in 1..Len(receipts) |-> DateParse(receipts[i].ts) >= cutoff])

\* A faulty rate, which C16 tells from the code: the cutoff moved back to the
\* hour.
getSolutionsPerHourSnapped(receipts, hours, now) ==
    IF Len(receipts) = 0 THEN Quotient(0, 1)
    ELSE Quotient(Len(Recent(receipts,
                             (now - (hours * 60 * 60 * 1000))
                                 - ((now - (hours * 60 * 60 * 1000)) % HourMs))),
                  hours)

getSolutionsPerHour(receipts, hours, now) ==
    IF Len(receipts) = 0 THEN Quotient(0, 1)
    ELSE Quotient(Len(Recent(receipts, now - (hours * 60 * 60 * 1000))), hours)

(***************************************************************************)
(* computeHourlyStats, computeLastNHours                                   *)
(***************************************************************************)
\* The local time zone tz of the server is its offset from UTC in ms before
\* and after a clock change, and the instant tz.at of the change (a zone
\* without a change has the same offset on both sides).
FixedZone(offset) == [before |-> offset, after |-> offset, at |-> 0]

\* LocalTime(t): the reading of the local clock at the instant t, in ms.
LocalTime(t, tz) == t + (IF t < tz.at THEN tz.before ELSE tz.after)

\* UTC(t): the instant at which the local clock reads `local`.  A reading the
\* clock shows twice, or never, is taken with the offset before the change.
UTC(local, tz) ==
    IF local - tz.before < tz.at THEN local - tz.before
    ELSE IF local - tz.after >= tz.at THEN local - tz.after
    ELSE local - tz.before

\* now.getHours(), in the local time zone tz
getHours(now, tz) == (LocalTime(now, tz) % DayMs) \div HourMs

\* d = new Date(now); d.setHours(h, 0, 0, 0); the instant d
setHours(now, tz, h) ==
    UTC((LocalTime(now, tz) \div DayMs) * DayMs + h * HourMs, tz)

\* The HourStats of an hour window, the STAR of its receipts summed.
HourStats(hourReceipts, hourStart, totalStar) ==
    [hour      |-> ISOString(hourStart),
     receipts  |-> Len(hourReceipts),
     addresses |-> Cardinality({hourReceipts[i].address : i \in 1..Len(hourReceipts)}),
     star      |-> totalStar,
     night     |-> FDivMillion(totalStar)]
\* A faulty hour, which C23 tells from the code: one rate for the whole
\* hour, that of the day of its first receipt.
HourOfDaysSingleRate(hourReceipts, rates, hourStart, days) ==
    IF ~AllOk(days) THEN FirstThrow(days)
    ELSE Return(HourStats(hourReceipts, hourStart,
                    IF Len(days) = 0 THEN 0
                    ELSE Len(days) * starPerReceipt(rates, days[1].v)))
HourOfDays(hourReceipts, rates, hourStart, days) ==
    IF ~AllOk(days) THEN FirstThrow(days)
    ELSE Return(HourStats(hourReceipts, hourStart,
                    SumInt([i \in 1..Len(days) |-> starPerReceipt(rates, days[i].v)])))
\* The unique addresses, the STAR loop and the HourStats of one hour window.
HourEntry(hourReceipts, rates, hourStart) ==
    HourOfDays(hourReceipts, rates, hourStart,
               [i \in 1..Len(hourReceipts) |->
                    dayFromChallengeId(hourReceipts[i].challenge_id)])

\* receipts.filter(r => new Date(r.ts) >= hourStart && new Date(r.ts) < hourEnd)
InWindow(receipts, hourStart, hourEnd) ==
    Filter(receipts,
           [i \in 1..Len(receipts) |->
                DateParse(receipts[i].ts) >= hourStart /\ DateParse(receipts[i].ts) < hourEnd])

\* computeHourlyStats after the filter.
PreviousHour(hourReceipts, rates, previousHourStart) ==
    IF Len(hourReceipts) = 0
    THEN Return([hour |-> ISOString(previousHourStart), receipts |-> 0,
                 addresses |-> 0, star |-> 0, night |-> FZero])
    ELSE HourEntry(hourReceipts, rates, previousHourStart)

computeHourlyStats(receipts, rates, now, tz) ==
    IF Len(receipts) = 0 THEN Return(Null)
    ELSE PreviousHour(InWindow(receipts,
                               setHours(now, tz, getHours(now, tz) - 1),
                               setHours(now, tz, getHours(now, tz))),
                      rates, setHours(now, tz, getHours(now, tz) - 1))

\* A faulty iteration, which C26 tells from the code: the windows lie one
\* hour further back, the last ends an hour before the current hour starts.
HourOfLoopShifted(receipts, rates, now, tz, i) ==
    HourEntry(InWindow(receipts,
                       setHours(now, tz, getHours(now, tz) - i - 2),
                       setHours(now, tz, getHours(now, tz) - i - 1)),
              rates, setHours(now, tz, getHours(now, tz) - i - 2))

\* The iteration i of the loop of computeLastNHours.
HourOfLoop(receipts, rates, now, tz, i) ==
    HourEntry(InWindow(receipts,
                       setHours(now, tz, getHours(now, tz) - i - 1),
                       setHours(now, tz, getHours(now, tz) - i)),
              rates, setHours(now, tz, getHours(now, tz) - i - 1))

LastHours(entries) ==
    IF ~AllOk(entries) THEN FirstThrow(entries) ELSE Return(Values(entries))

\* A faulty loop, which C15 tells from the code: it stops one hour early.
computeLastNHoursShort(receipts, rates, hours, now, tz) ==
    IF Len(receipts) = 0 \/ hours <= 0 THEN Return(<<>>)
    ELSE LastHours([k \in 1..(hours - 1) |->
                        HourOfLoop(receipts, rates, now, tz, hours - k)])

computeLastNHours(receipts, rates, hours, now, tz) ==
    IF Len(receipts) = 0 \/ hours <= 0 THEN Return(<<>>)
    ELSE LastHours([k \in 1..hours |-> HourOfLoop(receipts, rates, now, tz, hours - k)])

(***************************************************************************)
(* fetchRates and the request handler GET /api/stats                       *)
(***************************************************************************)
\* What axios.get ends with: a 2xx response carrying the rate table, or one
\* of the failures it throws.
\* A faulty fetchRates, which C18 tells from the code: a default table when
\* the request fails.
fetchRatesDefault(outcome) ==
    IF outcome.kind = "ok" THEN outcome.data ELSE <<1>>

fetchRates(outcome) ==
    IF outcome.kind = "ok" THEN outcome.data ELSE <<>>

\* The catch block of GET.
Failure(thrown) == [success |-> FALSE, error |-> thrown.error, status |-> 500]

\* The NextResponse.json of the try block.
Success(globalStats, hourlyStats, last8Hours, todayStats, perHour24h, perHour1h, errors) ==
    [success |-> TRUE,
     status  |-> 200,
     stats   |-> [global     |-> globalStats,
                  hourly     |-> hourlyStats,
                  last8Hours |-> last8Hours,
                  today      |-> todayStats,
                  rate       |-> [perHour24h |-> perHour24h, perHour1h |-> perHour1h],
                  errors     |-> [total |-> errors]]]

\* A faulty handler, which C10 tells from the code: when computeStats throws
\* it still reports what needs no aggregator.
SettlePartial(globalStats, hourlyStats, last8Hours, todayStats, perHour24h, perHour1h, errors) ==
    IF ~globalStats.ok
    THEN [success |-> FALSE, error |-> globalStats.error, status |-> 500,
          stats   |-> [rate   |-> [perHour24h |-> perHour24h, perHour1h |-> perHour1h],
                       errors |-> [total |-> errors]]]
    ELSE IF ~hourlyStats.ok THEN Failure(hourlyStats)
    ELSE IF ~last8Hours.ok THEN Failure(last8Hours)
    ELSE IF ~todayStats.ok THEN Failure(todayStats)
    ELSE Success(globalStats.v, hourlyStats.v, last8Hours.v, todayStats.v,
                 perHour24h, perHour1h, errors)
\* The try block with the outcome of each aggregator call: the first throw
\* ends it in the catch block.
Settle(globalStats, hourlyStats, last8Hours, todayStats, perHour24h, perHour1h, errors) ==
    IF ~globalStats.ok THEN Failure(globalStats)
    ELSE IF ~hourlyStats.ok THEN Failure(hourlyStats)
    ELSE IF ~last8Hours.ok THEN Failure(last8Hours)
    ELSE IF ~todayStats.ok THEN Failure(todayStats)
    ELSE Success(globalStats.v, hourlyStats.v, last8Hours.v, todayStats.v,
                 perHour24h, perHour1h, errors)

\* The handler from the return of fetchRates on.
Respond(receipts, errors, rates, now, tz) ==
    Settle(computeStats(receipts, rates),
           computeHourlyStats(receipts, rates, now, tz),
           computeLastNHours(receipts, rates, 8, now, tz),
           getTodayStats(receipts, rates, now),
           getSolutionsPerHour(receipts, 24, now),
           getSolutionsPerHour(receipts, 1, now),
           errors)

\* A faulty filter, which C22 tells from the code: the fee receipts stay.
UserReceiptsUnfiltered(allReceipts) == allReceipts
\* allReceipts.filter(r => !r.isDevFee)
UserReceipts(allReceipts) ==
    Filter(allReceipts, [i \in 1..Len(allReceipts) |-> ~allReceipts[i].isDevFee])

(***************************************************************************)
(* The inputs of the model.                                                *)
(***************************************************************************)
IdD07C01 == <<"*", "*", "D", "0", "7", "C", "0", "1">>
IdD01C10 == <<"*", "*", "D", "0", "1", "C", "1", "0">>
IdD1C2   == <<"*", "*", "D", "1", "C", "2">>
IdNested == <<"x", "*", "*", "D", "C", "*", "*", "D", "1", "2", "C">>
IdBad    == <<"b", "a", "d", "-", "i", "d">>

Receipt(ts, address, id, fee) ==
    [ts |-> ts, address |-> address, challenge_id |-> id, isDevFee |-> fee]

\* The receipts the miner may append to the log.
ReceiptPool ==
    { Receipt(<<2025, 11, 5, 10, 15>>, "A", IdD07C01, FALSE),
      Receipt(<<2025, 11, 5, 10, 45>>, "B", IdD07C01, FALSE),
      Receipt(<<2025, 11, 5, 10, 0>>,  "B", IdD01C10, FALSE),
      Receipt(<<2025, 11, 5, 11, 0>>,  "A", IdBad,    FALSE),
      Receipt(<<2025, 11, 5, 10, 20>>, "DEV", IdD07C01, TRUE) }

\* The rate tables the API may answer with: none, one shorter than the days
\* present, one that covers them.
RateTables == { <<>>, <<3>>, <<3, 0, 0, 0, 0, 0, 2>> }

HttpOutcomes ==
    {[kind |-> "ok", data |-> t] : t \in RateTables}
        \cup {[kind |-> k] : k \in {"timeout", "network", "status"}}

\* The instants at which a request may be served, and the server's time zones.
Instants == { DateParse(<<2025, 11, 5, 11, 22>>),
              DateParse(<<2025, 11, 6, 0, 10>>) }
TimeZones == { FixedZone(0), FixedZone(330 * MinuteMs) }

\* The sizes of the error log the handler may read.
ErrorCounts == { 2 }

(***************************************************************************)
(* The state machine: the receipt log grows while requests are served.     *)
(***************************************************************************)
VARIABLES
    log,        \* the receipt log, as readReceipts() returns it
    tz,         \* the server's time zone
    pc,         \* the request: "idle", "fetching" (axios.get pending),
                \* "settled" (fetchRates returned), "done"
    receipts,   \* GET's local: the user receipts of the snapshot
    errors,     \* GET's local: errors.length
    rates,      \* GET's local: what fetchRates returned
    clock,      \* the time the aggregators read
    response,   \* what GET answered
    logs,        \* the dashboard: the log buffer
    autoFollow,  \* the dashboard: TRUE while the log follows, FALSE while paused
    stats,       \* the dashboard: the mining stats, Null before the first status
    loading,     \* the dashboard: a start or stop is under way
    eventSource, \* the dashboard: the open stream with the closure of its
                 \* handlers, Null when there is none
    requests,    \* the dashboard: the fetches awaited, each with the closure
                 \* of its continuation
    added        \* the number of entries added to the buffer since it was
                 \* last cleared

server == <<log, tz, pc, receipts, errors, rates, clock, response>>
page == <<logs, autoFollow, stats, loading, eventSource, requests, added>>
vars == <<server, page>>

\* A fetch awaited by the page; autoFollow is the value in the closure of the
\* render that issued it.
Request(kind, follows) == [kind |-> kind, autoFollow |-> follows]

\* The page after its first render: the mount effect has called checkStatus.
PageInit ==
    /\ logs = <<>>
    /\ autoFollow = TRUE
    /\ stats = Null
    /\ loading = FALSE
    /\ eventSource = Null
    /\ requests = {Request("status", TRUE)}
    /\ added = 0

Init ==
    /\ log = <<>>
    /\ tz \in TimeZones
    /\ pc = "idle"
    /\ receipts = <<>>
    /\ errors = 0
    /\ rates = <<>>
    /\ clock = 0
    /\ response = Null
    /\ PageInit

\* The miner appends a receipt to the log: between requests, or while
\* axios.get is pending.
AppendReceipt ==
    /\ pc \in {"idle", "fetching"}
    /\ Len(log) < MaxReceipts
    /\ \E r \in ReceiptPool : log' = Append(log, r)
    /\ UNCHANGED <<tz, pc, receipts, errors, rates, clock, response, page>>

\* GET up to its await: reads the logs, drops the dev fee receipts, calls
\* fetchRates.
GetStart ==
    /\ pc = "idle"
    /\ receipts' = UserReceipts(log)
    /\ \E n \in ErrorCounts : errors' = n
    /\ pc' = "fetching"
    /\ UNCHANGED <<log, tz, rates, clock, response, page>>

\* axios.get settles and fetchRates returns.
FetchSettles ==
    /\ pc = "fetching"
    /\ \E outcome \in HttpOutcomes : rates' = fetchRates(outcome)
    /\ pc' = "settled"
    /\ UNCHANGED <<log, tz, receipts, errors, clock, response, page>>

\* GET resumes after its await and runs to its return.
GetResume ==
    /\ pc = "settled"
    /\ \E now \in Instants :
           /\ clock' = now
           /\ response' = Respond(receipts, errors, rates, now, tz)
    /\ pc' = "done"
    /\ UNCHANGED <<log, tz, receipts, errors, rates, page>>

\* The response is delivered and the locals of GET are gone; the handler is
\* ready for the next request.
GetReturn ==
    /\ pc = "done"
    /\ pc' = "idle"
    /\ receipts' = <<>>
    /\ errors' = 0
    /\ rates' = <<>>
    /\ clock' = 0
    /\ response' = Null
    /\ UNCHANGED <<log, tz, page>>

Next == AppendReceipt \/ GetStart \/ FetchSettles \/ GetResume \/ GetReturn

Spec == Init /\ [][Next]_vars

(***************************************************************************)
(* The exported functions called on their own.  A call sets the arguments  *)
(* (receipts, rates, the time clock the function reads, the zone tz of the *)
(* server) and leaves in response what the call was given besides and what *)
(* it returned or threw.                                                   *)
(***************************************************************************)
MaxArgs == 2
MaxDay == 20

IdD04C05 == <<"*", "*", "D", "0", "4", "C", "0", "5">>

\* Receipts on the bounds of the hour windows of 2025-11-05 11:15Z, one with
\* an id that does not decode, one of the hour before the clocks of New York
\* went back, and a dev fee receipt.
CallPool ==
    { Receipt(<<2025, 11, 5, 10, 0>>,  "B", IdD01C10, FALSE),
      Receipt(<<2025, 11, 5, 10, 15>>, "A", IdD07C01, FALSE),
      Receipt(<<2025, 11, 5, 11, 0>>,  "A", IdD07C01, FALSE),
      Receipt(<<2025, 11, 5, 10, 30>>, "A", IdBad,    FALSE),
      Receipt(<<2025, 11, 2, 5, 30>>,  "B", IdD04C05, FALSE),
      Receipt(<<2025, 11, 5, 10, 20>>, "DEV", IdD07C01, TRUE) }

RECURSIVE ReceiptLists(_)
ReceiptLists(n) ==
    IF n = 0 THEN {<<>>}
    ELSE ReceiptLists(n - 1)
             \cup {Append(l, r) : l \in {k \in ReceiptLists(n - 1) : Len(k) = n - 1},
                                  r \in CallPool}

\* America/New_York around 2025-11-02T06:00Z, when 02:00 EDT became 01:00 EST.
NewYork ==
    [before |-> 0 - 4 * HourMs, after |-> 0 - 5 * HourMs,
     at |-> DateParse(<<2025, 11, 2, 6, 0>>)]
CallTimeZones == TimeZones \cup {NewYork}

CallInstants == { DateParse(<<2025, 11, 5, 11, 15>>),
                  DateParse(<<2025, 11, 2, 7, 30>>),
                  DateParse(<<2025, 11, 6, 0, 10>>) }

HourCounts == { -1, 0, 1, 3 }
RateWindows == { 1, 24 }

CallsInit ==
    /\ log = <<>>
    /\ tz = FixedZone(0)
    /\ pc = "ready"
    /\ receipts = <<>>
    /\ errors = 0
    /\ rates = <<>>
    /\ clock = 0
    /\ response = Null
    /\ PageInit

CallComputeStats ==
    /\ pc = "ready"
    /\ \E l \in ReceiptLists(MaxArgs), t \in RateTables :
           /\ receipts' = ArraysAfterComputeStats(l, t).receipts
           /\ rates' = ArraysAfterComputeStats(l, t).rates
           /\ response' = [given |-> [receipts |-> l, rates |-> t],
                           result |-> computeStats(l, t)]
    /\ pc' = "computeStats"
    /\ UNCHANGED <<log, tz, errors, clock, page>>

CallComputeHourlyStats ==
    /\ pc = "ready"
    /\ \E l \in ReceiptLists(MaxArgs), t \in RateTables,
          now \in CallInstants, z \in CallTimeZones :
           /\ receipts' = l
           /\ rates' = t
           /\ clock' = now
           /\ tz' = z
           /\ response' = [given |-> [receipts |-> l, rates |-> t],
                           result |-> computeHourlyStats(l, t, now, z)]
    /\ pc' = "computeHourlyStats"
    /\ UNCHANGED <<log, errors, page>>

CallComputeLastNHours ==
    /\ pc = "ready"
    /\ \E l \in ReceiptLists(MaxArgs), t \in RateTables, hours \in HourCounts,
          now \in CallInstants, z \in CallTimeZones :
           /\ receipts' = l
           /\ rates' = t
           /\ clock' = now
           /\ tz' = z
           /\ response' = [given |-> [receipts |-> l, rates |-> t],
                           hours |-> hours,
                           result |-> computeLastNHours(l, t, hours, now, z)]
    /\ pc' = "computeLastNHours"
    /\ UNCHANGED <<log, errors, page>>

CallGetSolutionsPerHour ==
    /\ pc = "ready"
    /\ \E l \in ReceiptLists(MaxArgs), hours \in RateWindows, now \in CallInstants :
           /\ receipts' = l
           /\ clock' = now
           /\ response' = [given |-> [receipts |-> l, rates |-> rates],
                           hours |-> hours,
                           result |-> getSolutionsPerHour(l, hours, now)]
    /\ pc' = "getSolutionsPerHour"
    /\ UNCHANGED <<log, tz, errors, rates, page>>

CallGetTodayStats ==
    /\ pc = "ready"
    /\ \E l \in ReceiptLists(MaxArgs), t \in RateTables, now \in CallInstants :
           /\ receipts' = l
           /\ rates' = t
           /\ clock' = now
           /\ response' = [given |-> [receipts |-> l, rates |-> t],
                           result |-> getTodayStats(l, t, now)]
    /\ pc' = "getTodayStats"
    /\ UNCHANGED <<log, tz, errors, page>>

\* computeStats calls dateFromChallengeId with the id it builds for a day.
CallDateFromChallengeId ==
    /\ pc = "ready"
    /\ \E day \in 1..MaxDay :
           response' = [day |-> day,
                        result |-> dateFromChallengeId(ChallengeIdOfDay(day))]
    /\ pc' = "dateFromChallengeId"
    /\ UNCHANGED <<log, tz, receipts, errors, rates, clock, page>>

CallFetchRates ==
    /\ pc = "ready"
    /\ \E outcome \in HttpOutcomes :
           /\ rates' = fetchRates(outcome)
           /\ response' = [outcome |-> outcome]
    /\ pc' = "fetchRates"
    /\ UNCHANGED <<log, tz, receipts, errors, clock, page>>

\* A whole request: the log as it is read, what axios.get ends with and the
\* time of the request given.
CallGET ==
    /\ pc = "ready"
    /\ \E l \in ReceiptLists(MaxArgs), outcome \in HttpOutcomes,
          now \in CallInstants, z \in TimeZones :
           /\ receipts' = UserReceipts(l)
           /\ rates' = fetchRates(outcome)
           /\ clock' = now
           /\ tz' = z
           /\ response' = [allReceipts |-> l,
                           outcome |-> outcome,
                           result |-> Respond(UserReceipts(l), 0, fetchRates(outcome), now, z)]
    /\ pc' = "GET"
    /\ UNCHANGED <<log, errors, page>>

CallsNext ==
    \/ CallComputeStats
    \/ CallComputeHourlyStats
    \/ CallComputeLastNHours
    \/ CallGetSolutionsPerHour
    \/ CallGetTodayStats
    \/ CallDateFromChallengeId
    \/ CallFetchRates
    \/ CallGET

Calls == CallsInit /\ [][CallsNext]_vars

(***************************************************************************)
(* The mining dashboard: its log buffer, the stream that feeds it and the  *)
(* buttons that start and stop mining and pause the log.  A handler keeps  *)
(* the addLog of the render that created it, and with it that render's     *)
(* autoFollow: the stream handlers the one of the render in which the      *)
(* stream was opened, the continuation of a fetch the one of the render in *)
(* which the fetch was issued.                                             *)
(***************************************************************************)
\* .slice(-200)
LogLimit == 200
\* The entries the model adds between two clears, at most.
MaxAdded == 203

\* { timestamp: Date.now(), message, type }, by its number since the buffer
\* was last cleared; message and type do not bear on what the buffer keeps.
LogEntry(n) == [timestamp |-> n]

\* entries.slice(-n)
SliceLast(entries, n) ==
    IF Len(entries) <= n THEN entries
    ELSE SubSeq(entries, Len(entries) - n + 1, Len(entries))

\* The buffer after addLog from a closure whose autoFollow is `follows`.
addLog(prev, follows, entry) ==
    IF ~follows THEN prev
    ELSE SliceLast(Append(prev, entry), LogLimit)

\* n calls of addLog from one closure, on a buffer with `count` entries
\* added so far.
RECURSIVE addLogs(_, _, _, _)
addLogs(prev, follows, count, n) ==
    IF n = 0 THEN prev
    ELSE addLogs(addLog(prev, follows, LogEntry(count + 1)), follows, count + 1, n - 1)

\* stats?.active
Active(s) == s # Null /\ s.active

\* The effect on [stats?.active], run by the render that follows setStats:
\* its cleanup closes the stream, and it opens one when mining is active,
\* with handlers that hold this render's addLog.
StreamEffect(before, after, source, follows) ==
    IF Active(before) = Active(after) THEN source
    ELSE IF Active(after) THEN [autoFollow |-> follows]
    ELSE Null

\* What the stream sends: stats of a miner still active or stopped, and the
\* events that are logged (mining_start stands for registration_progress,
\* hash_progress, solution_submit, solution_result and error, which call
\* addLog once as it does).
StreamData ==
    { [type |-> "stats", active |-> TRUE],
      [type |-> "stats", active |-> FALSE],
      [type |-> "mining_start"] }

\* The answers of /api/mining/status, with and without stats.
StatusAnswers == { [success |-> TRUE, active |-> TRUE],
                   [success |-> TRUE, active |-> FALSE],
                   [success |-> FALSE] }

DashboardInit ==
    /\ log = <<>>
    /\ tz = FixedZone(0)
    /\ pc = "page"
    /\ receipts = <<>>
    /\ errors = 0
    /\ rates = <<>>
    /\ clock = 0
    /\ response = Null
    /\ PageInit

\* onClick={() => setAutoFollow(!autoFollow)}
ToggleAutoFollow ==
    /\ autoFollow' = ~autoFollow
    /\ UNCHANGED <<server, logs, stats, loading, eventSource, requests, added>>

\* checkStatus, from its await on.
StatusSettles ==
    /\ \E r \in requests, data \in StatusAnswers :
           /\ r.kind = "status"
           /\ requests' = requests \ {r}
           /\ stats' = IF data.success THEN [active |-> data.active] ELSE stats
           /\ eventSource' = StreamEffect(stats, stats', eventSource, autoFollow)
    /\ UNCHANGED <<server, logs, autoFollow, loading, added>>

\* eventSource.onmessage
StreamMessage ==
    /\ eventSource # Null
    /\ \E data \in StreamData :
           IF data.type = "stats"
           THEN /\ stats' = [active |-> data.active]
                /\ eventSource' = StreamEffect(stats, stats', eventSource, autoFollow)
                /\ UNCHANGED <<logs, added>>
           ELSE /\ added < MaxAdded
                /\ logs' = addLogs(logs, eventSource.autoFollow, added, 1)
                /\ added' = IF eventSource.autoFollow THEN added + 1 ELSE added
                /\ UNCHANGED <<stats, eventSource>>
    /\ UNCHANGED <<server, autoFollow, loading, requests>>

\* eventSource.onerror
StreamError ==
    /\ eventSource # Null
    /\ added < MaxAdded
    /\ eventSource' = Null
    /\ logs' = addLogs(logs, eventSource.autoFollow, added, 1)
    /\ added' = IF eventSource.autoFollow THEN added + 1 ELSE added
    /\ UNCHANGED <<server, autoFollow, stats, loading, requests>>

\* handleStartMining up to its await: the button shows while mining is not
\* active and is disabled while loading; the password is the stored one.
StartClick ==
    /\ stats # Null
    /\ ~stats.active
    /\ ~loading
    /\ loading' = TRUE
    /\ logs' = addLogs(<<>>, autoFollow, 0, 2)
    /\ added' = IF autoFollow THEN 2 ELSE 0
    /\ requests' = requests \cup {Request("start", autoFollow)}
    /\ UNCHANGED <<server, autoFollow, stats, eventSource>>

\* handleStartMining from its await on: try, catch and finally.
StartSettles ==
    /\ \E r \in requests, ok \in BOOLEAN :
           /\ r.kind = "start"
           /\ requests' = requests \ {r}
           /\ IF ok
              THEN /\ logs' = addLogs(logs, r.autoFollow, added, 2)
                   /\ added' = IF r.autoFollow THEN added + 2 ELSE added
                   /\ stats' = [active |-> TRUE]
              ELSE /\ logs' = addLogs(logs, r.autoFollow, added, 1)
                   /\ added' = IF r.autoFollow THEN added + 1 ELSE added
                   /\ stats' = stats
           /\ eventSource' = StreamEffect(stats, stats', eventSource, autoFollow)
    /\ added + 2 <= MaxAdded
    /\ loading' = FALSE
    /\ UNCHANGED <<server, autoFollow>>

\* handleStopMining up to its await.
StopClick ==
    /\ stats # Null
    /\ stats.active
    /\ ~loading
    /\ loading' = TRUE
    /\ requests' = requests \cup {Request("stop", autoFollow)}
    /\ UNCHANGED <<server, logs, autoFollow, stats, eventSource, added>>

\* handleStopMining from its await on, with the checkStatus it awaits.
StopSettles ==
    /\ \E r \in requests, ok \in BOOLEAN, data \in StatusAnswers :
           /\ r.kind = "stop"
           /\ requests' = requests \ {r}
           /\ stats' = IF ok /\ data.success THEN [active |-> data.active] ELSE stats
           /\ eventSource' = StreamEffect(stats, stats', eventSource, autoFollow)
    /\ loading' = FALSE
    /\ UNCHANGED <<server, logs, autoFollow, added>>

\* fetchRewards up to its await: from the effect on the rewards tab or the
\* Refresh button, one at a time for each closure.
RewardsFetch ==
    /\ Request("rewards", autoFollow) \notin requests
    /\ requests' = requests \cup {Request("rewards", autoFollow)}
    /\ UNCHANGED <<server, logs, autoFollow, stats, loading, eventSource, added>>

\* fetchRewards from its await on.
RewardsSettles ==
    /\ \E r \in requests, ok \in BOOLEAN :
           /\ r.kind = "rewards"
           /\ requests' = requests \ {r}
           /\ IF ok
              THEN UNCHANGED <<logs, added>>
              ELSE /\ added < MaxAdded
                   /\ logs' = addLogs(logs, r.autoFollow, added, 1)
                   /\ added' = IF r.autoFollow THEN added + 1 ELSE added
    /\ UNCHANGED <<server, autoFollow, stats, loading, eventSource>>

DashboardNext ==
    \/ ToggleAutoFollow
    \/ StatusSettles
    \/ StreamMessage
    \/ StreamError
    \/ StartClick
    \/ StartSettles
    \/ StopClick
    \/ StopSettles
    \/ RewardsFetch
    \/ RewardsSettles

Dashboard == DashboardInit /\ [][DashboardNext]_vars

(***************************************************************************)
(* Vocabulary of the properties.                                           *)
(***************************************************************************)
Done == pc = "done"
Succeeded == Done /\ response.success
Global == response.stats.global

Decodes(r) == dayFromChallengeId(r.challenge_id).ok
AllDecode(rs) == \A i \in 1..Len(rs) : Decodes(rs[i])
DayOf(r) == dayFromChallengeId(r.challenge_id).v

\* The sum of f over the finite index set S.
RECURSIVE SumOver(_, _)
SumOver(f, S) ==
    IF S = {} THEN 0
    ELSE LET x == CHOOSE y \in S : TRUE IN f[x] + SumOver(f, S \ {x})

\* The entry of the list `entries` for day d (a set: empty when there is none).
EntriesOfDay(entries, d) == {i \in 1..Len(entries) : entries[i].day = d}
\* The indices of the receipts of rs with address a, and of day d.
ReceiptsOf(rs, a) == {i \in 1..Len(rs) : rs[i].address = a}
ReceiptsOn(rs, d) == {i \in 1..Len(rs) : DayOf(rs[i]) = d}
\* The rate of day d: the entry rates[d - 1] of the code's zero-based table,
\* here the d-th of the sequence, 0 when the table has none.
RateOf(table, d) == IF d >= 1 /\ d <= Len(table) THEN table[d] ELSE 0

StrictlyDescending(days) ==
    \A i \in 1..Len(days), j \in 1..Len(days) : i < j => days[i].day > days[j].day

(***************************************************************************)
(* C1: for a non-empty receipt list whose challenge ids all decode,        *)
(* computeStats returns, and the receipts fields of GlobalStats.days sum   *)
(* to receipts.length.                                                     *)
(***************************************************************************)
C1_DayReceiptsSumToLength ==
    (Done /\ Len(receipts) > 0 /\ AllDecode(receipts)) =>
        /\ response.success
        /\ SumOver([i \in 1..Len(Global.days) |-> Global.days[i].receipts],
                   1..Len(Global.days)) = Len(receipts)

C1_Witness ==
    /\ Succeeded
    /\ Len(receipts) = 3
    /\ Len(Global.days) = 2
    /\ Global.days[1].receipts = 2

(***************************************************************************)
(* C2: every address of the input has one AddressStats, whose              *)
(* totalReceipts is the number of input receipts of that address and the   *)
(* sum of the receipts of its DayStats.                                    *)
(***************************************************************************)
C2_AddressTotals ==
    Succeeded =>
        /\ \A i \in 1..Len(receipts) :
               \E k \in 1..Len(Global.byAddress) :
                   Global.byAddress[k].address = receipts[i].address
        /\ \A k \in 1..Len(Global.byAddress) :
               LET a == Global.byAddress[k] IN
               /\ a.totalReceipts = Cardinality(ReceiptsOf(receipts, a.address))
               /\ a.totalReceipts =
                      SumOver([i \in 1..Len(a.days) |-> a.days[i].receipts],
                              1..Len(a.days))
               /\ \A j \in 1..Len(Global.byAddress) :
                      Global.byAddress[j].address = a.address => j = k

C2_Witness ==
    /\ Succeeded
    /\ \E k \in 1..Len(Global.byAddress) :
           /\ Len(Global.byAddress[k].days) = 2
           /\ Global.byAddress[k].totalReceipts = 3

(***************************************************************************)
(* C3: grandTotal.star, grandTotal.night and grandTotal.receipts are the   *)
(* sums of totalStar, totalNight and totalReceipts over byAddress (the     *)
(* NIGHT sum in the order of byAddress).                                   *)
(***************************************************************************)
\* totalNight of the first n addresses, added left to right from 0.
RECURSIVE NightOfFirst(_, _)
NightOfFirst(byAddress, n) ==
    IF n = 0 THEN FZero
    ELSE FAdd(NightOfFirst(byAddress, n - 1), byAddress[n].totalNight)

C3_GrandTotalIsSumOverAddresses ==
    Succeeded =>
        LET n == Len(Global.byAddress) IN
        /\ Global.grandTotal.star =
               SumOver([k \in 1..n |-> Global.byAddress[k].totalStar], 1..n)
        /\ Global.grandTotal.receipts =
               SumOver([k \in 1..n |-> Global.byAddress[k].totalReceipts], 1..n)
        /\ Global.grandTotal.night = NightOfFirst(Global.byAddress, n)

C3_Witness ==
    /\ Succeeded
    /\ Len(Global.byAddress) = 2
    /\ Global.byAddress[1].totalStar = 3
    /\ Global.byAddress[2].totalStar = 2
    /\ Global.grandTotal.star = 5

(***************************************************************************)
(* C4: night = star / 1_000_000 in every DayStats, AddressStats, HourStats *)
(* and in grandTotal.  The code computes grandTotal.night as the sum of    *)
(* the addresses' totalNight, which is another double.                     *)
(***************************************************************************)
NightIsStarOverMillion(e) == e.night = FDivMillion(e.star)

C4_NightIsStarOverMillion ==
    Succeeded =>
        /\ \A i \in 1..Len(Global.days) : NightIsStarOverMillion(Global.days[i])
        /\ \A k \in 1..Len(Global.byAddress) :
               /\ Global.byAddress[k].totalNight = FDivMillion(Global.byAddress[k].totalStar)
               /\ \A i \in 1..Len(Global.byAddress[k].days) :
                      NightIsStarOverMillion(Global.byAddress[k].days[i])
        /\ NightIsStarOverMillion(Global.grandTotal)
        /\ response.stats.hourly # Null => NightIsStarOverMillion(response.stats.hourly)
        /\ \A i \in 1..Len(response.stats.last8Hours) :
               NightIsStarOverMillion(response.stats.last8Hours[i])
        /\ response.stats.today # Null => NightIsStarOverMillion(response.stats.today)

(***************************************************************************)
(* C5: GlobalStats.days and the days of every AddressStats are strictly    *)
(* descending by day number (so no day appears twice in a list).           *)
(***************************************************************************)
C5_DaysStrictlyDescending ==
    Succeeded =>
        /\ StrictlyDescending(Global.days)
        /\ \A k \in 1..Len(Global.byAddress) :
               StrictlyDescending(Global.byAddress[k].days)

\* The days were met in ascending order, and one address has both.
C5_Witness ==
    /\ Succeeded
    /\ Len(receipts) = 3
    /\ DayOf(receipts[1]) = 1
    /\ DayOf(receipts[2]) = 7
    /\ receipts[1].address = receipts[2].address
    /\ Len(Global.days) = 2

(***************************************************************************)
(* C6: byAddress is ordered by totalReceipts descending, addresses with    *)
(* equal totalReceipts in the order of their first receipt in the input.   *)
(***************************************************************************)
FirstReceiptOf(rs, a) ==
    CHOOSE i \in ReceiptsOf(rs, a) : \A j \in ReceiptsOf(rs, a) : i <= j

C6_ByAddressOrder ==
    Succeeded =>
        \A i \in 1..Len(Global.byAddress), j \in 1..Len(Global.byAddress) :
            i < j =>
                /\ Global.byAddress[i].totalReceipts >= Global.byAddress[j].totalReceipts
                /\ Global.byAddress[i].totalReceipts = Global.byAddress[j].totalReceipts
                       => FirstReceiptOf(receipts, Global.byAddress[i].address)
                              < FirstReceiptOf(receipts, Global.byAddress[j].address)

\* The address met first has fewer receipts, so the sort moves it back.
C6_Witness ==
    /\ Succeeded
    /\ Len(receipts) = 3
    /\ receipts[1].address = "A"
    /\ Len(Global.byAddress) = 2
    /\ Global.byAddress[1].address = "B"
    /\ Global.byAddress[1].totalReceipts = 2

(***************************************************************************)
(* C7: the global DayStats of each day d of the input has receipts = the   *)
(* sum over the addresses of their count for d, addresses = the number of  *)
(* distinct addresses with a receipt on d, star = receipts * rates[d-1];   *)
(* two day-7 receipts of A and B with rates[6] = 2 give                    *)
(* {day 7, receipts 2, addresses 2, star 4}.                               *)
(***************************************************************************)
\* The receipts the AddressStats a counts for day d.
CountOfAddressOn(a, d) ==
    SumOver([i \in 1..Len(a.days) |-> a.days[i].receipts], EntriesOfDay(a.days, d))

C7_GlobalDayStats ==
    Succeeded =>
        /\ \A i \in 1..Len(receipts) :
               Cardinality(EntriesOfDay(Global.days, DayOf(receipts[i]))) = 1
        /\ \A i \in 1..Len(Global.days) :
               LET e == Global.days[i]
                   n == Len(Global.byAddress)
               IN /\ e.receipts =
                         SumOver([k \in 1..n |-> CountOfAddressOn(Global.byAddress[k], e.day)],
                                 1..n)
                  /\ e.receipts = Cardinality(ReceiptsOn(receipts, e.day))
                  /\ e.addresses =
                         Cardinality({receipts[j].address : j \in ReceiptsOn(receipts, e.day)})
                  /\ e.star = e.receipts * RateOf(rates, e.day)
        /\ (/\ Len(receipts) = 2
            /\ receipts[1].address = "A" /\ receipts[2].address = "B"
            /\ DayOf(receipts[1]) = 7 /\ DayOf(receipts[2]) = 7
            /\ RateOf(rates, 7) = 2)
           => /\ Len(Global.days) = 1
              /\ Global.days[1].day = 7
              /\ Global.days[1].receipts = 2
              /\ Global.days[1].addresses = 2
              /\ Global.days[1].star = 4

C7_Witness ==
    /\ Succeeded
    /\ Len(receipts) = 2
    /\ receipts[1].address = "A" /\ receipts[2].address = "B"
    /\ DayOf(receipts[1]) = 7 /\ DayOf(receipts[2]) = 7
    /\ RateOf(rates, 7) = 2
    /\ Global.days[1].star = 4

(***************************************************************************)
(* C8: no aggregator fails because of the rate table: with an empty or a   *)
(* short table the request succeeds, and a day without an entry has its    *)
(* receipts counted at 0 STAR.                                             *)
(***************************************************************************)
\* The days of the receipts that fall in the hour that starts at `hour`.
StarOfHour(rs, table, hourStart) ==
    SumOver([i \in 1..Len(rs) |-> RateOf(table, DayOf(rs[i]))],
            {i \in 1..Len(rs) : /\ DateParse(rs[i].ts) >= hourStart
                                /\ DateParse(rs[i].ts) < hourStart + HourMs})

C8_MissingRateIsZero ==
    (Done /\ AllDecode(receipts)) =>
        /\ response.success
        /\ Global.totalReceipts = Len(receipts)
        /\ \A i \in 1..Len(Global.days) :
               Global.days[i].day > Len(rates) =>
                   /\ Global.days[i].star = 0
                   /\ Global.days[i].receipts
                          = Cardinality(ReceiptsOn(receipts, Global.days[i].day))
        /\ \A k \in 1..Len(Global.byAddress) :
               \A i \in 1..Len(Global.byAddress[k].days) :
               Global.byAddress[k].days[i].day > Len(rates) =>
                   /\ Global.byAddress[k].days[i].star = 0
                   /\ Global.byAddress[k].days[i].receipts >= 1
        /\ \A i \in 1..Len(response.stats.last8Hours) :
               response.stats.last8Hours[i].star
                   = StarOfHour(receipts, rates,
                                DateParse(response.stats.last8Hours[i].hour))
        /\ response.stats.hourly # Null =>
               response.stats.hourly.star
                   = StarOfHour(receipts, rates, DateParse(response.stats.hourly.hour))
        /\ response.stats.today # Null =>
               (response.stats.today.day > Len(rates) =>
                    /\ response.stats.today.star = 0
                    /\ response.stats.today.receipts >= 1)

\* A table shorter than the highest day present: day 7 has no rate.
C8_Witness ==
    /\ Succeeded
    /\ Len(rates) = 1
    /\ Len(Global.days) = 2
    /\ Global.days[1].day = 7
    /\ Global.days[1].receipts = 2
    /\ Global.days[1].star = 0
    /\ response.stats.today # Null
    /\ response.stats.hourly # Null
    /\ response.stats.hourly.receipts >= 1

(***************************************************************************)
(* C9: a receipt whose challenge id lacks the day pattern makes            *)
(* computeStats throw, wherever it stands in a non-empty list, so no       *)
(* GlobalStats is returned; dayFromChallengeId returns the embedded day    *)
(* ("**D01C10" gives 1) and throws for "bad-id".                           *)
(***************************************************************************)
\* The challenge id of the first receipt of rs that does not decode.
FirstMalformed(rs) ==
    rs[CHOOSE i \in 1..Len(rs) :
           /\ ~Decodes(rs[i])
           /\ \A j \in 1..(i - 1) : Decodes(rs[j])].challenge_id

C9_MalformedIdThrows ==
    /\ dayFromChallengeId(IdD01C10).ok /\ dayFromChallengeId(IdD01C10).v = 1
    /\ dayFromChallengeId(IdD07C01).ok /\ dayFromChallengeId(IdD07C01).v = 7
    /\ dayFromChallengeId(IdD1C2).ok /\ dayFromChallengeId(IdD1C2).v = 1
    /\ dayFromChallengeId(IdNested).ok /\ dayFromChallengeId(IdNested).v = 12
    /\ ~dayFromChallengeId(IdBad).ok
    /\ (Done /\ ~AllDecode(receipts)) =>
           /\ ~computeStats(receipts, rates).ok
           /\ computeStats(receipts, rates).error = InvalidFormat(FirstMalformed(receipts))
           /\ ~response.success
           /\ response.error = InvalidFormat(FirstMalformed(receipts))

\* The malformed receipt is the last of three.
C9_Witness ==
    /\ Done
    /\ Len(receipts) = 3
    /\ Decodes(receipts[1]) /\ Decodes(receipts[2]) /\ ~Decodes(receipts[3])
    /\ ~response.success

(***************************************************************************)
(* C10: GET answers either success with global, hourly, last8Hours, today, *)
(* rate and errors, all computed from the one receipt snapshot and rate    *)
(* table, or a failure (success false, status 500) without any statistics; *)
(* when an aggregator throws nothing partial is returned.                  *)
(***************************************************************************)
C10_AllOrNothing ==
    Done =>
        \/ /\ response.success
           /\ response.status = 200
           /\ DOMAIN response = {"success", "status", "stats"}
           /\ DOMAIN response.stats
                  = {"global", "hourly", "last8Hours", "today", "rate", "errors"}
           /\ AllDecode(receipts)
           /\ Global.totalReceipts = Len(receipts)
           /\ Global.grandTotal.star
                  = SumOver([i \in 1..Len(receipts) |-> RateOf(rates, DayOf(receipts[i]))],
                            1..Len(receipts))
           /\ (Len(receipts) = 0) = (response.stats.hourly = Null)
           /\ response.stats.hourly # Null =>
                  /\ response.stats.hourly.star
                         = StarOfHour(receipts, rates, DateParse(response.stats.hourly.hour))
           /\ Len(response.stats.last8Hours) = (IF Len(receipts) = 0 THEN 0 ELSE 8)
           /\ \A i \in 1..Len(response.stats.last8Hours) :
                  response.stats.last8Hours[i].star
                      = StarOfHour(receipts, rates,
                                   DateParse(response.stats.last8Hours[i].hour))
           /\ response.stats.today # Null =>
                  /\ response.stats.today.receipts
                         = Cardinality(ReceiptsOn(receipts, response.stats.today.day))
                  /\ response.stats.today.star
                         = response.stats.today.receipts
                               * RateOf(rates, response.stats.today.day)
           /\ response.stats.rate.perHour24h
                  = Quotient(Cardinality({i \in 1..Len(receipts) :
                                 DateParse(receipts[i].ts) >= clock - 24 * HourMs}), 24)
           /\ response.stats.rate.perHour1h
                  = Quotient(Cardinality({i \in 1..Len(receipts) :
                                 DateParse(receipts[i].ts) >= clock - HourMs}), 1)
           /\ response.stats.errors.total = errors
        \/ /\ ~response.success
           /\ response.status = 500
           /\ DOMAIN response = {"success", "status", "error"}
           /\ ~AllDecode(receipts)

\* An aggregator throws after the log has grown during the await.
C10_Witness ==
    /\ Done
    /\ ~response.success
    /\ Len(receipts) = 2
    /\ Decodes(receipts[1])
    /\ Len(log) = 3

\* A success whose snapshot is older than the log.
C10_SnapshotWitness ==
    /\ Succeeded
    /\ Len(receipts) = 1
    /\ Len(UserReceipts(log)) = 3
    /\ Global.totalReceipts = 1

(***************************************************************************)
(* Vocabulary of the properties of the single calls.                       *)
(***************************************************************************)
Called(fn) == pc = fn
Result == response.result

\* The receipts of rs stamped in [from, to).
StampedIn(rs, from, to) ==
    {i \in 1..Len(rs) : DateParse(rs[i].ts) >= from /\ DateParse(rs[i].ts) < to}

\* The current time with minutes, seconds and milliseconds set to zero.
CurrentHourStart(now, zone) == now - (LocalTime(now, zone) % 3600000)

\* The HourStats of an hour without receipts.
ZeroHour(hourStart) ==
    [hour |-> ISOString(hourStart), receipts |-> 0, addresses |-> 0,
     star |-> 0, night |-> FZero]

(***************************************************************************)
(* C11: computeStats on an empty receipt list returns, whatever the rate   *)
(* table, totalReceipts 0, totalAddresses 0, empty days and byAddress,     *)
(* grandTotal {0, 0, 0} and undefined startDate and endDate; it does not   *)
(* throw.                                                                  *)
(***************************************************************************)
C11_EmptyListGivesZeroStats ==
    (Called("computeStats") /\ receipts = <<>>) =>
        /\ Result.ok
        /\ Result.v = [totalReceipts |-> 0, totalAddresses |-> 0,
                       days |-> <<>>, byAddress |-> <<>>,
                       grandTotal |-> [receipts |-> 0, star |-> 0, night |-> FZero],
                       startDate |-> Undefined, endDate |-> Undefined]

C11_Witness ==
    /\ Called("computeStats")
    /\ receipts = <<>>
    /\ Len(rates) = 7
    /\ Result.ok
    /\ Result.v.totalReceipts = 0

(***************************************************************************)
(* C12: computeHourlyStats returns null exactly for the empty list; for a  *)
(* non-empty list without a receipt in the previous complete hour it       *)
(* returns the zero HourStats labelled with the start of that hour.  Where *)
(* the local clock was set back within the last hours the code's window is *)
(* not the previous complete hour.                                         *)
(***************************************************************************)
C12_NullIffEmptyElseZeroHour ==
    Called("computeHourlyStats") =>
        /\ (Result.ok /\ Result.v = Null) <=> (receipts = <<>>)
        /\ (/\ receipts # <<>>
            /\ StampedIn(receipts, CurrentHourStart(clock, tz) - 3600000,
                         CurrentHourStart(clock, tz)) = {})
           => /\ Result.ok
              /\ Result.v = ZeroHour(CurrentHourStart(clock, tz) - 3600000)

(***************************************************************************)
(* C13: computeHourlyStats counts exactly the receipts stamped in          *)
(* [currentHourStart - 1h, currentHourStart), the bound below included and *)
(* the bound above excluded.  With the local clock set back the code's     *)
(* window is two hours long.                                               *)
(***************************************************************************)
C13_HalfOpenPreviousHour ==
    (Called("computeHourlyStats") /\ receipts # <<>> /\ Result.ok) =>
        Result.v.receipts
            = Cardinality(StampedIn(receipts, CurrentHourStart(clock, tz) - 3600000,
                                    CurrentHourStart(clock, tz)))

(***************************************************************************)
(* C14: computeLastNHours returns the empty list for hours <= 0 or no      *)
(* receipts, and otherwise `hours` entries, one for each of the `hours`    *)
(* whole hours that end at the start of the current hour, oldest first     *)
(* with strictly increasing labels, zero-valued where the hour has no      *)
(* receipt.  With the local clock set back the entries are not those       *)
(* hours.                                                                  *)
(***************************************************************************)
\* The start of the k-th of the n hours that end at the current hour.
StartOfHour(k, n) == CurrentHourStart(clock, tz) - (n - k + 1) * 3600000

C14_OneEntryPerHour ==
    Called("computeLastNHours") =>
        /\ (receipts = <<>> \/ response.hours <= 0) => Result = Return(<<>>)
        /\ (receipts # <<>> /\ response.hours >= 1 /\ Result.ok) =>
               /\ Len(Result.v) = response.hours
               /\ \A k \in 1..Len(Result.v) :
                      /\ Result.v[k].hour = ISOString(StartOfHour(k, response.hours))
                      /\ Result.v[k].receipts
                             = Cardinality(StampedIn(receipts,
                                   StartOfHour(k, response.hours),
                                   StartOfHour(k, response.hours) + 3600000))
                      /\ Result.v[k].receipts = 0
                             => Result.v[k] = ZeroHour(StartOfHour(k, response.hours))
               /\ \A j \in 1..Len(Result.v), k \in 1..Len(Result.v) :
                      j < k => DateParse(Result.v[j].hour) < DateParse(Result.v[k].hour)

(***************************************************************************)
(* C15: a successful response of GET holds 8 HourStats in last8Hours when  *)
(* the snapshot has a receipt, and none when the snapshot is empty.        *)
(***************************************************************************)
C15_EightEntriesUnlessEmpty ==
    Succeeded =>
        /\ Len(response.stats.last8Hours) = (IF receipts = <<>> THEN 0 ELSE 8)
        /\ \A k \in 1..Len(response.stats.last8Hours) :
               DOMAIN response.stats.last8Hours[k]
                   = {"hour", "receipts", "addresses", "star", "night"}

C15_Witness ==
    /\ Succeeded
    /\ Len(receipts) = 3
    /\ Len(response.stats.last8Hours) = 8
    /\ response.stats.last8Hours[8].receipts = 3

\* C15 as stated: 8 entries whatever the snapshot.
C15_AlwaysEightEntries ==
    Succeeded => Len(response.stats.last8Hours) = 8

(***************************************************************************)
(* C16: getSolutionsPerHour returns 0 for the empty list, and otherwise    *)
(* the number of receipts stamped at or after now - hours * 3,600,000 ms,  *)
(* divided by hours; the cutoff is not moved to an hour boundary.          *)
(***************************************************************************)
C16_RecentOverHours ==
    Called("getSolutionsPerHour") =>
        /\ receipts = <<>> => Result = Quotient(0, 1)
        /\ receipts # <<>> =>
               Result = Quotient(Cardinality({i \in 1..Len(receipts) :
                                     DateParse(receipts[i].ts)
                                         >= clock - response.hours * 3600000}),
                                 response.hours)

\* At 11:15 the receipt of 10:15 counts and the one of 10:00 does not.
C16_Witness ==
    /\ Called("getSolutionsPerHour")
    /\ response.hours = 1
    /\ clock = DateParse(<<2025, 11, 5, 11, 15>>)
    /\ Len(receipts) = 2
    /\ receipts[1].ts = <<2025, 11, 5, 10, 0>>
    /\ receipts[2].ts = <<2025, 11, 5, 10, 15>>
    /\ Result = Quotient(1, 1)

(***************************************************************************)
(* C17: getSolutionsPerHour(receipts, 1) counts only the receipts with     *)
(* now - 3,600,000 <= ts <= now.  The code has no bound above: a receipt   *)
(* stamped after now counts.                                               *)
(***************************************************************************)
C17_OnlyTrailingHour ==
    (Called("getSolutionsPerHour") /\ response.hours = 1) =>
        Result = Quotient(Cardinality({i \in 1..Len(receipts) :
                              /\ DateParse(receipts[i].ts) >= clock - 3600000
                              /\ DateParse(receipts[i].ts) <= clock}),
                          1)

(***************************************************************************)
(* C18: fetchRates resolves to the empty array when the request times out, *)
(* fails in the network or is answered with a non-2xx status, and GET then *)
(* computes its statistics at rate 0; it never fails because of the fetch. *)
(***************************************************************************)
C18_FetchFailureGivesEmptyTable ==
    /\ (Called("fetchRates") /\ response.outcome.kind # "ok") => rates = <<>>
    /\ (Called("GET") /\ response.outcome.kind # "ok") =>
           /\ rates = <<>>
           /\ AllDecode(receipts) =>
                  /\ Result.success
                  /\ Result.stats.global.totalReceipts = Len(receipts)
                  /\ Result.stats.global.grandTotal.star = 0
                  /\ \A i \in 1..Len(Result.stats.global.days) :
                         /\ Result.stats.global.days[i].star = 0
                         /\ Result.stats.global.days[i].receipts >= 1
                  /\ \A k \in 1..Len(Result.stats.last8Hours) :
                         Result.stats.last8Hours[k].star = 0
           /\ ~Result.success =>
                  /\ ~AllDecode(receipts)
                  /\ Result.error = InvalidFormat(FirstMalformed(receipts))

C18_Witness ==
    /\ Called("GET")
    /\ response.outcome.kind = "timeout"
    /\ Len(receipts) = 2
    /\ Result.success
    /\ Result.stats.global.totalReceipts = 2
    /\ Result.stats.global.grandTotal.star = 0

(***************************************************************************)
(* C19: dateFromChallengeId gives day N the date of 2025-10-30T00:00:00Z   *)
(* plus (N - 1) * 86,400,000 ms: different days have different dates, the  *)
(* instants of consecutive days are 86,400,000 ms apart, day 1 is          *)
(* 2025-10-30 and day 8 is 2025-11-06.                                     *)
(***************************************************************************)
DateOfDay(day) == dateFromChallengeId(ChallengeIdOfDay(day))
\* The instant of midnight UTC of an ISO date.
Midnight(date) == DateParse(date \o <<0, 0>>)

C19_DayToDate ==
    /\ DateOfDay(1) = Return(<<2025, 10, 30>>)
    /\ DateOfDay(8) = Return(<<2025, 11, 6>>)
    /\ Called("dateFromChallengeId") =>
           /\ Result.ok
           /\ Midnight(Result.v) = (response.day - 1) * 86400000
           /\ \A other \in 1..MaxDay :
                  /\ other # response.day => DateOfDay(other).v # Result.v
                  /\ other = response.day + 1 =>
                         Midnight(DateOfDay(other).v) - Midnight(Result.v) = 86400000

\* The day after the last of October.
C19_Witness ==
    /\ Called("dateFromChallengeId")
    /\ response.day = 3
    /\ Result = Return(<<2025, 11, 1>>)

(***************************************************************************)
(* C20: for a non-empty list of decodable receipts, startDate is the date  *)
(* of the smallest day present (the last of days), endDate the date of the *)
(* largest (the first of days), startDate <= endDate, and neither is       *)
(* undefined.                                                              *)
(***************************************************************************)
DaysPresent(rs) == {DayOf(rs[i]) : i \in 1..Len(rs)}
Smallest(S) == CHOOSE x \in S : \A y \in S : x <= y
Largest(S) == CHOOSE x \in S : \A y \in S : x >= y

C20_StartAndEndDate ==
    (Called("computeStats") /\ receipts # <<>> /\ AllDecode(receipts)) =>
        /\ Result.ok
        /\ Result.v.days # <<>>
        /\ Result.v.startDate = DateOfDay(Smallest(DaysPresent(receipts))).v
        /\ Result.v.endDate = DateOfDay(Largest(DaysPresent(receipts))).v
        /\ Result.v.startDate = Result.v.days[Len(Result.v.days)].date
        /\ Result.v.endDate = Result.v.days[1].date
        /\ Result.v.startDate # Undefined /\ Result.v.endDate # Undefined
        /\ Midnight(Result.v.startDate) <= Midnight(Result.v.endDate)

\* The receipt of the later day comes first in the input.
C20_Witness ==
    /\ Called("computeStats")
    /\ Len(receipts) = 2
    /\ Result.ok
    /\ DayOf(receipts[1]) = 7
    /\ DayOf(receipts[2]) = 1
    /\ Result.v.startDate = <<2025, 10, 30>>
    /\ Result.v.endDate = <<2025, 11, 5>>

(***************************************************************************)
(* C21: computeStats, computeHourlyStats, computeLastNHours, getTodayStats *)
(* and getSolutionsPerHour leave their inputs unchanged: after the call    *)
(* the receipt list has the length, the order and the field values it was  *)
(* given with, and the rate table is the one given.                        *)
(***************************************************************************)
Aggregators ==
    {"computeStats", "computeHourlyStats", "computeLastNHours",
     "getTodayStats", "getSolutionsPerHour"}

C21_InputsUnchanged ==
    (\E fn \in Aggregators : Called(fn)) =>
        /\ Len(receipts) = Len(response.given.receipts)
        /\ \A i \in 1..Len(receipts) : receipts[i] = response.given.receipts[i]
        /\ rates = response.given.rates

\* The timestamps of B were sorted, the later one is still the first receipt.
C21_Witness ==
    /\ Called("computeStats")
    /\ Result.ok
    /\ Len(receipts) = 2
    /\ receipts[1].address = "B" /\ receipts[1].ts = <<2025, 11, 5, 10, 0>>
    /\ receipts[2].address = "B" /\ receipts[2].ts = <<2025, 11, 2, 5, 30>>
    /\ Result.v.byAddress[1].firstSolution = <<2025, 11, 2, 5, 30>>
    /\ Len(rates) = 7

(***************************************************************************)
(* C22: GET removes every receipt flagged isDevFee before it calls an      *)
(* aggregator: the aggregators get the non-fee receipts of the snapshot,   *)
(* all of them and in their order, and no fee receipt counts in global,    *)
(* hourly, last8Hours, today or rate of the response.                      *)
(***************************************************************************)
UsersOf(allReceipts) == SelectSeq(allReceipts, LAMBDA r : ~r.isDevFee)
\* The receipts of rs whose challenge day is the UTC date of now.
OfToday(rs, now) ==
    {i \in 1..Len(rs) : dateFromChallengeId(rs[i].challenge_id) = Return(ISODate(now))}
StampedFrom(rs, cutoff) == {i \in 1..Len(rs) : DateParse(rs[i].ts) >= cutoff}

C22_FeeReceiptsRemoved ==
    Called("GET") =>
        LET users == UsersOf(response.allReceipts)
            out == Result.stats
            start == CurrentHourStart(clock, tz)
        IN
        /\ receipts = users
        /\ Result.success =>
               /\ out.global.totalReceipts = Len(users)
               /\ out.global.grandTotal.receipts = Len(users)
               /\ \A k \in 1..Len(out.global.byAddress) :
                      /\ ReceiptsOf(users, out.global.byAddress[k].address) # {}
                      /\ out.global.byAddress[k].totalReceipts
                             = Cardinality(ReceiptsOf(users,
                                               out.global.byAddress[k].address))
               /\ SumOver([i \in 1..Len(out.global.days) |->
                               out.global.days[i].receipts],
                          1..Len(out.global.days)) = Len(users)
               /\ (out.hourly = Null) <=> (users = <<>>)
               /\ out.hourly # Null =>
                      out.hourly.receipts
                          = Cardinality(StampedIn(users, start - 3600000, start))
               /\ SumOver([i \in 1..Len(out.last8Hours) |->
                               out.last8Hours[i].receipts],
                          1..Len(out.last8Hours))
                      = Cardinality(StampedIn(users, start - 8 * 3600000, start))
               /\ (out.today = Null) <=> (OfToday(users, clock) = {})
               /\ out.today # Null =>
                      out.today.receipts = Cardinality(OfToday(users, clock))
               /\ out.rate.perHour1h
                      = Quotient(Cardinality(StampedFrom(users, clock - 3600000)), 1)
               /\ out.rate.perHour24h
                      = Quotient(Cardinality(StampedFrom(users, clock - 24 * 3600000)), 24)

\* The snapshot holds a fee receipt and a user receipt of the same hour and
\* day.
C22_Witness ==
    /\ Called("GET")
    /\ clock = DateParse(<<2025, 11, 5, 11, 15>>)
    /\ Len(response.allReceipts) = 2
    /\ response.allReceipts[1].isDevFee
    /\ response.allReceipts[1].ts = <<2025, 11, 5, 10, 20>>
    /\ response.allReceipts[2].ts = <<2025, 11, 5, 10, 15>>
    /\ Result.success
    /\ Result.stats.global.totalReceipts = 1
    /\ Result.stats.hourly.receipts = 1
    /\ Result.stats.today.receipts = 1

(***************************************************************************)
(* C23: in computeHourlyStats and in each entry of computeLastNHours, star *)
(* is the sum over the receipts in the hour window of rates[day - 1] (0    *)
(* when missing) with day the decoded day of that receipt; when a window   *)
(* holds receipts of two days with different rates, star is not the number *)
(* of receipts times one of the rates.                                     *)
(***************************************************************************)
\* The window of the hour that ends i hours before the current one starts.
WindowStart(i) == setHours(clock, tz, getHours(clock, tz) - i - 1)
WindowEnd(i) == setHours(clock, tz, getHours(clock, tz) - i)
Window(i) == StampedIn(receipts, WindowStart(i), WindowEnd(i))

OwnRate(r) == IF Decodes(r) THEN RateOf(rates, DayOf(r)) ELSE 0
OwnRateStar(W) == SumOver([i \in 1..Len(receipts) |-> OwnRate(receipts[i])], W)
TwoRates(W) ==
    /\ Cardinality({DayOf(receipts[i]) : i \in W}) = 2
    /\ Cardinality({OwnRate(receipts[i]) : i \in W}) = 2

PerReceiptStar(entry, W) ==
    /\ entry.star = OwnRateStar(W)
    /\ TwoRates(W) => \A i \in W : entry.star # entry.receipts * OwnRate(receipts[i])

C23_OwnRatePerReceipt ==
    /\ (Called("computeHourlyStats") /\ receipts # <<>> /\ Result.ok) =>
           PerReceiptStar(Result.v, Window(0))
    /\ (Called("computeLastNHours") /\ Result.ok) =>
           \A k \in 1..Len(Result.v) :
               PerReceiptStar(Result.v[k], Window(response.hours - k))

\* The hour from 10:00 holds a receipt of day 1 (rate 3) and one of day 7
\* (rate 2).
C23_Witness ==
    /\ Called("computeHourlyStats")
    /\ clock = DateParse(<<2025, 11, 5, 11, 15>>)
    /\ tz = FixedZone(0)
    /\ rates = <<3, 0, 0, 0, 0, 0, 2>>
    /\ Len(receipts) = 2
    /\ DayOf(receipts[1]) = 1
    /\ DayOf(receipts[2]) = 7
    /\ Result.ok
    /\ Result.v.receipts = 2
    /\ Result.v.star = 5

(***************************************************************************)
(* C24: an aggregation that touches a receipt whose challenge id does not  *)
(* decode fails: computeHourlyStats and computeLastNHours when the receipt *)
(* lies in a window they evaluate, getTodayStats and computeStats when the *)
(* list holds one, and no aggregator returns a count that includes such a  *)
(* receipt.  getSolutionsPerHour decodes no id: it returns, and counts the *)
(* receipt when its timestamp is past the cutoff.                          *)
(***************************************************************************)
Undecodable(rs) == {i \in 1..Len(rs) : ~Decodes(rs[i])}

C24_UndecodableIdFails ==
    /\ (Called("computeStats") /\ Undecodable(receipts) # {}) => ~Result.ok
    /\ (Called("getTodayStats") /\ Undecodable(receipts) # {}) => ~Result.ok
    /\ (Called("computeHourlyStats") /\ Undecodable(receipts) \cap Window(0) # {})
           => ~Result.ok
    /\ (/\ Called("computeLastNHours")
        /\ \E i \in 0..(response.hours - 1) : Undecodable(receipts) \cap Window(i) # {})
           => ~Result.ok
    /\ Called("getSolutionsPerHour") =>
           Undecodable(receipts)
               \cap StampedFrom(receipts, clock - response.hours * 3600000) = {}

(***************************************************************************)
(* C25: for every AddressStats of computeStats, firstSolution is the       *)
(* smallest and lastSolution the largest timestamp among the input         *)
(* receipts of the address, both are timestamps of receipts of that        *)
(* address, and firstSolution <= lastSolution.                             *)
(***************************************************************************)
C25_FirstAndLastSolution ==
    (Called("computeStats") /\ Result.ok) =>
        \A k \in 1..Len(Result.v.byAddress) :
            LET a == Result.v.byAddress[k]
                mine == ReceiptsOf(receipts, a.address)
            IN
            /\ \E i \in mine : receipts[i].ts = a.firstSolution
            /\ \E i \in mine : receipts[i].ts = a.lastSolution
            /\ \A i \in mine :
                   /\ DateParse(a.firstSolution) <= DateParse(receipts[i].ts)
                   /\ DateParse(receipts[i].ts) <= DateParse(a.lastSolution)
            /\ DateParse(a.firstSolution) <= DateParse(a.lastSolution)

\* The later receipt of B comes first in the input.
C25_Witness ==
    /\ Called("computeStats")
    /\ Result.ok
    /\ Len(receipts) = 2
    /\ receipts[1].ts = <<2025, 11, 5, 10, 0>>
    /\ receipts[2].ts = <<2025, 11, 2, 5, 30>>
    /\ Len(Result.v.byAddress) = 1
    /\ Result.v.byAddress[1].address = "B"
    /\ Result.v.byAddress[1].firstSolution = <<2025, 11, 2, 5, 30>>
    /\ Result.v.byAddress[1].lastSolution = <<2025, 11, 5, 10, 0>>

(***************************************************************************)
(* C26: for a non-empty receipt list, any rate table, any n >= 1 and the   *)
(* same current time, the last entry of computeLastNHours(receipts, rates, *)
(* n) is the result of computeHourlyStats(receipts, rates): the same hour, *)
(* receipts, addresses, star and night.                                    *)
(***************************************************************************)
C26_LastEntryIsPreviousHour ==
    (Called("computeLastNHours") /\ receipts # <<>> /\ response.hours >= 1 /\ Result.ok) =>
        LET last == Result.v[Len(Result.v)]
            hourly == computeHourlyStats(receipts, rates, clock, tz)
        IN
        /\ hourly.ok
        /\ hourly.v # Null
        /\ hourly.v.hour = last.hour
        /\ hourly.v.receipts = last.receipts
        /\ hourly.v.addresses = last.addresses
        /\ hourly.v.star = last.star
        /\ hourly.v.night = last.night

\* Three hours asked at 11:15, two receipts of A in the hour from 10:00.
C26_Witness ==
    /\ Called("computeLastNHours")
    /\ response.hours = 3
    /\ clock = DateParse(<<2025, 11, 5, 11, 15>>)
    /\ tz = FixedZone(0)
    /\ rates = <<3, 0, 0, 0, 0, 0, 2>>
    /\ Result.ok
    /\ Len(Result.v) = 3
    /\ Result.v[3].hour = <<2025, 11, 5, 10, 0>>
    /\ Result.v[3].receipts = 1
    /\ Result.v[3].star = 2
    /\ computeHourlyStats(receipts, rates, clock, tz).v.star = 2

(***************************************************************************)
(* C27: the windows of the entries of computeLastNHours(receipts, rates,   *)
(* n) are pairwise disjoint and contiguous: a receipt counts in the entry  *)
(* labelled h exactly when h <= ts < h + 1 hour, in at most one entry, and *)
(* the receipts of all entries sum to the number of receipts with          *)
(* currentHourStart - n hours <= ts < currentHourStart.  In the hours      *)
(* after the local clock was set back the code's windows overlap.          *)
(***************************************************************************)
LabelOf(entry) == DateParse(entry.hour)

C27_WindowsPartitionTheLastHours ==
    (Called("computeLastNHours") /\ receipts # <<>> /\ response.hours >= 1 /\ Result.ok) =>
        /\ \A k \in 1..Len(Result.v) :
               Result.v[k].receipts
                   = Cardinality(StampedIn(receipts, LabelOf(Result.v[k]),
                                           LabelOf(Result.v[k]) + 3600000))
        /\ \A k \in 1..(Len(Result.v) - 1) :
               LabelOf(Result.v[k + 1]) = LabelOf(Result.v[k]) + 3600000
        /\ SumOver([k \in 1..Len(Result.v) |-> Result.v[k].receipts], 1..Len(Result.v))
               = Cardinality(StampedIn(receipts,
                                 CurrentHourStart(clock, tz) - response.hours * 3600000,
                                 CurrentHourStart(clock, tz)))

(***************************************************************************)
(* C28: the two rollups of computeStats agree (the rates are integers):    *)
(* the star of GlobalStats.days sums to grandTotal.star, and the global    *)
(* DayStats of a day has the sum, over the addresses, of the star of the   *)
(* address's DayStats of that day.                                         *)
(***************************************************************************)
\* The star of address entry a on day d, 0 when it has no DayStats of d.
StarOfAddressOn(a, d) ==
    SumOver([j \in 1..Len(a.days) |-> a.days[j].star], EntriesOfDay(a.days, d))

C28_RollupsAgree ==
    (Called("computeStats") /\ Result.ok) =>
        LET days == Result.v.days
            byAddress == Result.v.byAddress
        IN
        /\ SumOver([i \in 1..Len(days) |-> days[i].star], 1..Len(days))
               = Result.v.grandTotal.star
        /\ \A i \in 1..Len(days) :
               days[i].star
                   = SumOver([k \in 1..Len(byAddress) |->
                                  StarOfAddressOn(byAddress[k], days[i].day)],
                             1..Len(byAddress))

\* Two addresses have a receipt of day 7, at rate 2.
C28_Witness ==
    /\ Called("computeStats")
    /\ Result.ok
    /\ rates = <<3, 0, 0, 0, 0, 0, 2>>
    /\ Len(Result.v.byAddress) = 2
    /\ Len(Result.v.days) = 1
    /\ Result.v.days[1].day = 7
    /\ Result.v.days[1].star = 4
    /\ Result.v.grandTotal.star = 4

(***************************************************************************)
(* C29: for receipts whose ids decode, getTodayStats returns null exactly  *)
(* when no receipt's challenge day maps to today's UTC date; otherwise it  *)
(* returns the DayStats with date today, day the one day number that maps  *)
(* to today, receipts the number of receipts of that day, addresses the    *)
(* number of their distinct addresses, and star receipts * rates[day - 1]  *)
(* (0 when missing), which is the star of that day in computeStats's days. *)
(***************************************************************************)
C29_TodayStats ==
    (Called("getTodayStats") /\ AllDecode(receipts)) =>
        LET mine == OfToday(receipts, clock) IN
        /\ Result.ok
        /\ (Result.v = Null) <=> (mine = {})
        /\ mine # {} =>
               LET today == Result.v
                   days == computeStats(receipts, rates).v.days
               IN
               /\ today.date = ISODate(clock)
               /\ DateOfDay(today.day) = Return(ISODate(clock))
               /\ \A i \in mine : DayOf(receipts[i]) = today.day
               /\ mine = ReceiptsOn(receipts, today.day)
               /\ today.receipts = Cardinality(mine)
               /\ today.addresses = Cardinality({receipts[i].address : i \in mine})
               /\ today.star = today.receipts * RateOf(rates, today.day)
               /\ today.night = FDivMillion(today.star)
               /\ \E i \in 1..Len(days) :
                      /\ days[i].day = today.day
                      /\ days[i].star = today.star
                      /\ days[i].receipts = today.receipts

\* On 2025-11-05, day 7, with a receipt of day 7 and one of day 1.
C29_Witness ==
    /\ Called("getTodayStats")
    /\ clock = DateParse(<<2025, 11, 5, 11, 15>>)
    /\ rates = <<3, 0, 0, 0, 0, 0, 2>>
    /\ Len(receipts) = 2
    /\ DayOf(receipts[1]) = 7
    /\ DayOf(receipts[2]) = 1
    /\ Result.ok
    /\ Result.v # Null
    /\ Result.v.day = 7
    /\ Result.v.receipts = 1
    /\ Result.v.star = 2

(***************************************************************************)
(* C30: in the mining dashboard, after any sequence of stream events and   *)
(* user actions, the log buffer holds at most 200 entries, the most        *)
(* recently added ones in the order they arrived; while the log is paused  *)
(* (autoFollow false) addLog adds nothing; and starting mining clears the  *)
(* buffer.  The stream handlers and the continuations of the fetches call  *)
(* the addLog of an earlier render: they go by the autoFollow of the time  *)
(* the stream was opened or the fetch issued, and add entries while the    *)
(* log is paused.                                                          *)
(***************************************************************************)
\* The buffer holds the last entries added, in their order.
LastAdded ==
    /\ Len(logs) <= LogLimit
    /\ Len(logs) = IF added <= LogLimit THEN added ELSE LogLimit
    /\ \A i \in 1..Len(logs) : logs[i] = LogEntry(added - Len(logs) + i)

\* A step that leaves the buffer as it is, or empty: it adds no entry.
AddsNothing == logs' = logs \/ logs' = <<>>

\* A step of handleStartMining up to its await.
Starts == ~loading /\ loading' /\ "start" \in {r.kind : r \in requests'}
\* After it the buffer holds nothing that was there before, only what the
\* handler itself has logged.
ClearedByStart == Len(logs') <= 2 /\ added' = Len(logs')

C30_LogBuffer ==
    /\ []LastAdded
    /\ [][(~autoFollow => AddsNothing) /\ (Starts => ClearedByStart)]_vars

====
